---- MODULE Spec2Model ----
(***************************************************************************)
(* A model of go-rdbms: the relational engine (engine/table.go), the       *)
(* statement executor and the file persistence (engine/storage.go).        *)
(*                                                                         *)
(* Strings that the code inspects character by character (column names,   *)
(* TEXT values, file contents) are sequences of one-character strings.     *)
(* Table names are only used as map keys and file names and stay atoms.    *)
(* A *Row is a pointer: a table carries a heap from row ids to the row's   *)
(* Data map, Rows is the slice of pointers and index maps primary-key      *)
(* values to pointers.                                                     *)
(***************************************************************************)
EXTENDS Integers, Sequences, FiniteSets, TLC

VARIABLES
    tables,     \* Database.Tables: table name -> Table
    files,      \* the data directory: table name -> contents of <name>.table
    loaded,     \* what the last call of TableFromCSV returned
    last,       \* the last call: operation, table, arguments and error
    result,     \* the *ResultSet the last call of ExecuteSelect returned
    requests,   \* the CreateEntry requests being served: request -> progress
    lexer       \* the Lexer: input, pos and current

vars == <<tables, files, loaded, last, result, requests, lexer>>

(***************************************************************************)
(* Bounds of the model.                                                    *)
(***************************************************************************)
MaxRows == 2

\* The longest TEXT value the codec is given.
MaxLen == 2

(***************************************************************************)
(* Dynamically typed values: interface{} holding int, string, bool or nil. *)
(***************************************************************************)
IntVal(n) == [kind |-> "int", val |-> n]

TextVal(s) == [kind |-> "text", val |-> s]

BoolVal(b) == [kind |-> "bool", val |-> b]

Null == [kind |-> "null", val |-> 0]

DATATYPE_INTEGER == "INTEGER"

DATATYPE_TEXT == "TEXT"

DATATYPE_BOOLEAN == "BOOLEAN"

Ok == "ok"

EmptyMap == [x \in {} |-> Null]

\* The elements of a sequence, as a set.
Range(s) == {s[i] : i \in 1..Len(s)}

\* The least element of a non-empty set of integers.
Min(S) == CHOOSE m \in S : \A n \in S : m <= n

(***************************************************************************)
(* Rows.                                                                   *)
(***************************************************************************)
\* Row.GetValue: a Go map read, nil when the key is missing.
GetValue(data, columnName) ==
    IF columnName \in DOMAIN data THEN data[columnName] ELSE Null

\* Row.SetValue: a Go map write.
SetValue(data, columnName, value) ==
    [c \in (DOMAIN data) \cup {columnName} |->
        IF c = columnName THEN value ELSE data[c]]

(***************************************************************************)
(* Tables.                                                                 *)
(***************************************************************************)
Column(name, dataType, primaryKey, unique) ==
    [Name |-> name, DataType |-> dataType,
     PrimaryKey |-> primaryKey, Unique |-> unique]

\* NewTable: the primary key is the first column flagged PrimaryKey,
\* the empty string when there is none.
NewTable(name, columns) ==
    LET pks == {i \in 1..Len(columns) : columns[i].PrimaryKey}
    IN  [Name |-> name,
         Columns |-> columns,
         Rows |-> <<>>,
         PrimaryKey |-> IF pks = {} THEN <<>> ELSE columns[Min(pks)].Name,
         index |-> EmptyMap,
         heap |-> EmptyMap]

\* Table.findColumn: the position of the first column of that name, 0 for nil.
findColumn(t, name) ==
    LET is == {i \in 1..Len(t.Columns) : t.Columns[i].Name = name}
    IN  IF is = {} THEN 0 ELSE Min(is)

\* Table.GetColumnNames
GetColumnNames(t) == [i \in 1..Len(t.Columns) |-> t.Columns[i].Name]

\* Table.validateValueType: a type assertion on the value; nil fails all three.
validateValueType(col, value) ==
    CASE col.DataType = DATATYPE_INTEGER ->
            IF value.kind = "int" THEN Ok ELSE "type"
      [] col.DataType = DATATYPE_TEXT ->
            IF value.kind = "text" THEN Ok ELSE "type"
      [] col.DataType = DATATYPE_BOOLEAN ->
            IF value.kind = "bool" THEN Ok ELSE "type"
      [] OTHER -> Ok

\* A faulty ValidateRow that leaves out the primary-key check of table.go
\* 95-102; C5 has to tell it from ValidateRow.
ValidateRowWithoutKeyCheck(t, data) ==
    LET colErr(i) ==
            IF t.Columns[i].Name \notin DOMAIN data THEN "missing"
            ELSE validateValueType(t.Columns[i], data[t.Columns[i].Name])
        bad == {i \in 1..Len(t.Columns) : colErr(i) # Ok}
        uniqueDup ==
            \E i \in 1..Len(t.Columns) :
                /\ t.Columns[i].Unique
                /\ ~t.Columns[i].PrimaryKey
                /\ t.Columns[i].Name \in DOMAIN data
                /\ \E j \in 1..Len(t.Rows) :
                    LET existingValue ==
                            GetValue(t.heap[t.Rows[j]], t.Columns[i].Name)
                    IN  /\ existingValue # Null
                        /\ existingValue = data[t.Columns[i].Name]
    IN  IF bad # {} THEN colErr(Min(bad))
        ELSE IF uniqueDup THEN "unique constraint violation"
        ELSE Ok

\* Table.ValidateRow
ValidateRow(t, data) ==
    LET colErr(i) ==
            IF t.Columns[i].Name \notin DOMAIN data THEN "missing"
            ELSE validateValueType(t.Columns[i], data[t.Columns[i].Name])
        bad == {i \in 1..Len(t.Columns) : colErr(i) # Ok}
        pkDup == /\ t.PrimaryKey # <<>>
                 /\ t.PrimaryKey \in DOMAIN data
                 /\ data[t.PrimaryKey] \in DOMAIN t.index
        uniqueDup ==
            \E i \in 1..Len(t.Columns) :
                /\ t.Columns[i].Unique
                /\ ~t.Columns[i].PrimaryKey
                /\ t.Columns[i].Name \in DOMAIN data
                /\ \E j \in 1..Len(t.Rows) :
                    LET existingValue ==
                            GetValue(t.heap[t.Rows[j]], t.Columns[i].Name)
                    IN  /\ existingValue # Null
                        /\ existingValue = data[t.Columns[i].Name]
    IN  IF bad # {} THEN colErr(Min(bad))
        ELSE IF pkDup THEN "primary key violation"
        ELSE IF uniqueDup THEN "unique constraint violation"
        ELSE Ok

\* A pointer that no row of the table holds: what NewRow() returns.
NewRow(t) ==
    Min((1..(Cardinality(DOMAIN t.heap) + 1)) \ (DOMAIN t.heap))

\* A faulty InsertRow that leaves out the index update of table.go 148-152;
\* C4 has to tell it from InsertRow.
InsertRowWithoutIndex(t, rid, data) ==
    LET err == ValidateRow(t, data)
    IN  IF err # Ok THEN [table |-> t, err |-> err]
        ELSE [table |->
                [t EXCEPT
                    !.Rows = Append(t.Rows, rid),
                    !.heap = [r \in (DOMAIN t.heap) \cup {rid} |->
                                IF r = rid THEN data ELSE t.heap[r]]],
              err |-> Ok]

\* Table.InsertRow, for the row at pointer rid with contents data.
InsertRow(t, rid, data) ==
    LET err == ValidateRow(t, data)
    IN  IF err # Ok THEN [table |-> t, err |-> err]
        ELSE [table |->
                [t EXCEPT
                    !.Rows = Append(t.Rows, rid),
                    !.heap = [r \in (DOMAIN t.heap) \cup {rid} |->
                                IF r = rid THEN data ELSE t.heap[r]],
                    !.index =
                        IF t.PrimaryKey # <<>> /\ t.PrimaryKey \in DOMAIN data
                        THEN [k \in (DOMAIN t.index) \cup {data[t.PrimaryKey]} |->
                                IF k = data[t.PrimaryKey] THEN rid ELSE t.index[k]]
                        ELSE t.index],
              err |-> Ok]

\* Table.FindRowByPrimaryKey: the pointer, 0 for nil.
FindRowByPrimaryKey(t, pkValue) ==
    IF t.PrimaryKey = <<>> THEN 0
    ELSE IF pkValue \in DOMAIN t.index THEN t.index[pkValue] ELSE 0

\* The row's pointer is dropped from the heap once neither Rows nor index
\* holds it (Go's garbage collection).
Collect(t) ==
    [t EXCEPT !.heap =
        [r \in (Range(t.Rows) \cup {t.index[k] : k \in DOMAIN t.index}) |->
            t.heap[r]]]

\* The first loop of Table.UpdateRow (table.go 173-184) over the entries of
\* the updates map, visited in the sequence order: the row's Data after the
\* loop and the error that ended it.
RECURSIVE ApplyUpdates(_, _, _, _, _)
ApplyUpdates(t, data, updates, order, i) ==
    IF i > Len(order) THEN [data |-> data, err |-> Ok]
    ELSE LET colName == order[i]
             c == findColumn(t, colName)
         IN  IF c = 0 THEN [data |-> data, err |-> "no column"]
             ELSE IF validateValueType(t.Columns[c], updates[colName]) # Ok
                  THEN [data |-> data, err |-> "type"]
             ELSE ApplyUpdates(t, SetValue(data, colName, updates[colName]),
                               updates, order, i + 1)

\* The second loop of Table.UpdateRow (table.go 187-198): the unique
\* constraints of the row at rid against every other row.
RevalidateUnique(t, rid) ==
    IF \E i \in 1..Len(t.Columns) :
          /\ t.Columns[i].Unique
          /\ ~t.Columns[i].PrimaryKey
          /\ \E j \in 1..Len(t.Rows) :
                /\ t.Rows[j] # rid
                /\ LET existingValue ==
                           GetValue(t.heap[t.Rows[j]], t.Columns[i].Name)
                   IN  /\ existingValue # Null
                       /\ existingValue =
                            GetValue(t.heap[rid], t.Columns[i].Name)
    THEN "unique constraint violation"
    ELSE Ok

\* A faulty UpdateRow that moves the row's index entry to the row's new
\* primary-key value; C10 has to tell it from UpdateRow.
UpdateRowRelocating(t, pkValue, updates, order) ==
    LET rid == FindRowByPrimaryKey(t, pkValue)
    IN  IF rid = 0 THEN [table |-> t, err |-> "not found"]
        ELSE LET applied == ApplyUpdates(t, t.heap[rid], updates, order, 1)
                 k == GetValue(applied.data, t.PrimaryKey)
                 t1 == [t EXCEPT
                            !.heap[rid] = applied.data,
                            !.index =
                                [v \in ((DOMAIN t.index) \ {pkValue}) \cup {k}
                                    |-> IF v = k THEN rid ELSE t.index[v]]]
             IN  IF applied.err # Ok THEN [table |-> t1, err |-> applied.err]
                 ELSE [table |-> t1, err |-> RevalidateUnique(t1, rid)]

\* Table.UpdateRow; order is the order in which Go ranges over the updates map.
UpdateRow(t, pkValue, updates, order) ==
    LET rid == FindRowByPrimaryKey(t, pkValue)
    IN  IF rid = 0 THEN [table |-> t, err |-> "not found"]
        ELSE LET applied == ApplyUpdates(t, t.heap[rid], updates, order, 1)
                 t1 == [t EXCEPT !.heap[rid] = applied.data]
             IN  IF applied.err # Ok THEN [table |-> t1, err |-> applied.err]
                 ELSE [table |-> t1, err |-> RevalidateUnique(t1, rid)]

\* A faulty DeleteRow that leaves out the delete from the index of table.go
\* 223; C31 has to tell it from DeleteRow.
DeleteRowKeepingIndex(t, pkValue) ==
    IF t.PrimaryKey = <<>> THEN [table |-> t, err |-> "no primary key"]
    ELSE LET rid == FindRowByPrimaryKey(t, pkValue)
         IN  IF rid = 0 THEN [table |-> t, err |-> "not found"]
             ELSE [table |->
                     [t EXCEPT !.Rows = SelectSeq(t.Rows, LAMBDA r : r # rid)],
                   err |-> Ok]

\* Table.DeleteRow
DeleteRow(t, pkValue) ==
    IF t.PrimaryKey = <<>> THEN [table |-> t, err |-> "no primary key"]
    ELSE LET rid == FindRowByPrimaryKey(t, pkValue)
         IN  IF rid = 0 THEN [table |-> t, err |-> "not found"]
             ELSE [table |->
                     Collect([t EXCEPT
                         !.Rows = SelectSeq(t.Rows, LAMBDA r : r # rid),
                         !.index = [k \in (DOMAIN t.index) \ {pkValue} |->
                                        t.index[k]]]),
                   err |-> Ok]

(***************************************************************************)
(* The AST nodes the executor reads (parser/ast.go).                       *)
(***************************************************************************)
Literal(v) == [node |-> "Literal", Value |-> v]

Identifier(name) == [node |-> "Identifier", Value |-> name]

QualifiedIdentifier(tbl, col) ==
    [node |-> "QualifiedIdentifier", Table |-> tbl, Column |-> col]

BinaryExpression(l, op, r) ==
    [node |-> "BinaryExpression", Left |-> l, Operator |-> op, Right |-> r]

StarExpression == [node |-> "StarExpression"]

\* A nil Expression: a statement without a WHERE clause.
NilExpr == [node |-> "nil"]

(***************************************************************************)
(* The statement executor (the second half of engine/storage.go).          *)
(***************************************************************************)
\* The byte of a character; strings compare byte by byte in Go.
Code(c) ==
    CASE c = " " -> 32
      [] c = "\"" -> 34
      [] c = "," -> 44
      [] c = "-" -> 45
      [] c = "0" -> 48
      [] c = "1" -> 49
      [] c = "2" -> 50
      [] c = "3" -> 51
      [] c = ":" -> 58
      [] c = "a" -> 97
      [] c = "b" -> 98
      [] OTHER -> 122

\* Go's < on strings.
RECURSIVE StrLess(_, _)
StrLess(l, r) ==
    IF r = <<>> THEN FALSE
    ELSE IF l = <<>> THEN TRUE
    ELSE IF Code(Head(l)) # Code(Head(r)) THEN Code(Head(l)) < Code(Head(r))
    ELSE StrLess(Tail(l), Tail(r))

\* A faulty compareOrdered that also orders Booleans (false before true) and
\* values of different types (by the name of the type); C18 has to tell it
\* from compareOrdered.
compareOrderedAcrossTypes(left, right) ==
    IF left.kind = "int" /\ right.kind = "int"
    THEN (IF left.val < right.val THEN -1
          ELSE IF left.val > right.val THEN 1 ELSE 0)
    ELSE IF left.kind = "text" /\ right.kind = "text"
    THEN (IF StrLess(left.val, right.val) THEN -1
          ELSE IF StrLess(right.val, left.val) THEN 1 ELSE 0)
    ELSE IF left.kind = "bool" /\ right.kind = "bool"
    THEN (IF left.val = right.val THEN 0 ELSE IF left.val THEN 1 ELSE -1)
    ELSE IF left.kind = right.kind THEN 0
    ELSE IF left.kind = "text" THEN 1 ELSE -1

\* compareOrdered
compareOrdered(left, right) ==
    IF left.kind = "int" /\ right.kind = "int"
    THEN (IF left.val < right.val THEN -1
          ELSE IF left.val > right.val THEN 1 ELSE 0)
    ELSE IF left.kind = "text" /\ right.kind = "text"
    THEN (IF StrLess(left.val, right.val) THEN -1
          ELSE IF StrLess(right.val, left.val) THEN 1 ELSE 0)
    ELSE 0

\* Database.compareValues
compareValues(left, right, operator) ==
    CASE operator = "=" -> left = right
      [] operator = "!=" -> left # right
      [] operator = ">" -> compareOrdered(left, right) > 0
      [] operator = "<" -> compareOrdered(left, right) < 0
      [] operator = ">=" -> compareOrdered(left, right) >= 0
      [] operator = "<=" -> compareOrdered(left, right) <= 0
      [] OTHER -> FALSE

\* Database.evaluateExpression
evaluateExpression(expr) ==
    IF expr.node = "Literal" THEN [value |-> expr.Value, err |-> Ok]
    ELSE IF expr.node = "Identifier"
    THEN [value |-> Null, err |-> "identifiers not supported"]
    ELSE [value |-> Null, err |-> "unsupported expression"]

\* Database.extractColumnName
extractColumnName(expr) ==
    IF expr.node = "Identifier" THEN [name |-> expr.Value, err |-> Ok]
    ELSE IF expr.node = "QualifiedIdentifier"
    THEN [name |-> expr.Column, err |-> Ok]
    ELSE [name |-> <<>>, err |-> "not an identifier"]

\* Database.buildBinaryCondition: the error it returns.
buildBinaryCondition(expr) ==
    IF extractColumnName(expr.Left).err # Ok
    THEN extractColumnName(expr.Left).err
    ELSE evaluateExpression(expr.Right).err

\* Database.buildWhereCondition: the error it returns.
buildWhereCondition(expr) ==
    IF expr.node = "BinaryExpression" THEN buildBinaryCondition(expr)
    ELSE "unsupported WHERE expression"

\* The closure buildBinaryCondition returns, applied to a row; the default
\* closure of the Execute functions when the statement has no WHERE.
whereCondition(where, data) ==
    IF where = NilExpr THEN TRUE
    ELSE compareValues(GetValue(data, extractColumnName(where.Left).name),
                       evaluateExpression(where.Right).value,
                       where.Operator)

\* The error of the WHERE clause of a statement, Ok without one.
whereError(where) ==
    IF where = NilExpr THEN Ok ELSE buildWhereCondition(where)

\* A faulty ExecuteCreateTable that registers the new table over an existing
\* one; C13 has to tell it from ExecuteCreateTable.
ExecuteCreateTableReplacing(db, stmt) ==
    [db |-> [n \in (DOMAIN db) \cup {stmt.TableName} |->
                IF n = stmt.TableName
                THEN NewTable(stmt.TableName, stmt.Columns)
                ELSE db[n]],
     err |-> IF stmt.TableName \in DOMAIN db THEN "already exists" ELSE Ok]

\* Database.ExecuteCreateTable
ExecuteCreateTable(db, stmt) ==
    IF stmt.TableName \in DOMAIN db
    THEN [db |-> db, err |-> "already exists"]
    ELSE [db |-> [n \in (DOMAIN db) \cup {stmt.TableName} |->
                    IF n = stmt.TableName
                    THEN NewTable(stmt.TableName, stmt.Columns)
                    ELSE db[n]],
          err |-> Ok]

\* Database.ExecuteInsert
ExecuteInsert(db, stmt) ==
    IF stmt.TableName \notin DOMAIN db
    THEN [db |-> db, err |-> "no table"]
    ELSE LET table == db[stmt.TableName]
         IN  IF Len(stmt.Values) # Len(table.Columns)
             THEN [db |-> db, err |-> "value count"]
             ELSE LET bad == {i \in 1..Len(stmt.Values) :
                                evaluateExpression(stmt.Values[i]).err # Ok}
                      names == Range(GetColumnNames(table))
                      \* a column named twice keeps the value set last
                      data == [c \in names |->
                                evaluateExpression(stmt.Values[
                                    CHOOSE i \in 1..Len(table.Columns) :
                                        /\ table.Columns[i].Name = c
                                        /\ \A j \in 1..Len(table.Columns) :
                                            table.Columns[j].Name = c => j <= i
                                    ]).value]
                      r == InsertRow(table, NewRow(table), data)
                  IN  IF bad # {}
                      THEN [db |-> db,
                            err |-> evaluateExpression(stmt.Values[Min(bad)]).err]
                      ELSE [db |-> [db EXCEPT ![stmt.TableName] = r.table],
                            err |-> r.err]

\* The loop "Apply updates" of Database.ExecuteUpdate (storage.go 349-361)
\* from position i of rowsToUpdate on.
RECURSIVE UpdateLoop(_, _, _, _, _)
UpdateLoop(table, rowsToUpdate, i, updates, order) ==
    IF i > Len(rowsToUpdate) THEN [table |-> table, err |-> Ok]
    ELSE LET rid == rowsToUpdate[i]
         IN  IF table.PrimaryKey # <<>>
             THEN LET pkValue == GetValue(table.heap[rid], table.PrimaryKey)
                      r == UpdateRow(table, pkValue, updates, order)
                  IN  IF r.err # Ok THEN r
                      ELSE UpdateLoop(r.table, rowsToUpdate, i + 1,
                                      updates, order)
             ELSE UpdateLoop(
                    [table EXCEPT !.heap[rid] =
                        [c \in (DOMAIN table.heap[rid]) \cup (DOMAIN updates) |->
                            IF c \in DOMAIN updates THEN updates[c]
                            ELSE table.heap[rid][c]]],
                    rowsToUpdate, i + 1, updates, order)

\* Database.ExecuteUpdate. stmt.Set is a map from column names to
\* expressions; order is the order in which UpdateRow ranges over the map of
\* evaluated values (one order is enough: an error of UpdateRow's first loop
\* ends the statement at the first row it reaches).
ExecuteUpdate(db, stmt, order) ==
    IF stmt.TableName \notin DOMAIN db
    THEN [db |-> db, err |-> "no table"]
    ELSE LET table == db[stmt.TableName]
             bad == {c \in DOMAIN stmt.Set :
                        evaluateExpression(stmt.Set[c]).err # Ok}
             updates == [c \in DOMAIN stmt.Set |->
                            evaluateExpression(stmt.Set[c]).value]
             rowsToUpdate ==
                SelectSeq(table.Rows,
                          LAMBDA r : whereCondition(stmt.Where, table.heap[r]))
             r == UpdateLoop(table, rowsToUpdate, 1, updates, order)
         IN  IF bad # {}
             THEN [db |-> db, err |-> "identifiers not supported"]
             ELSE IF whereError(stmt.Where) # Ok
             THEN [db |-> db, err |-> whereError(stmt.Where)]
             ELSE [db |-> [db EXCEPT ![stmt.TableName] = r.table],
                   err |-> r.err]

\* The loop "Delete rows" of Database.ExecuteDelete (storage.go 394-398).
RECURSIVE DeleteLoop(_, _, _)
DeleteLoop(table, rowsToDelete, i) ==
    IF i > Len(rowsToDelete) THEN [table |-> table, err |-> Ok]
    ELSE LET r == DeleteRow(table, rowsToDelete[i])
         IN  IF r.err # Ok THEN r
             ELSE DeleteLoop(r.table, rowsToDelete, i + 1)

\* Database.ExecuteDelete: the primary-key values of the matching rows are
\* collected only when the table has a primary key.
ExecuteDelete(db, stmt) ==
    IF stmt.TableName \notin DOMAIN db
    THEN [db |-> db, err |-> "no table"]
    ELSE LET table == db[stmt.TableName]
             matching ==
                SelectSeq(table.Rows,
                          LAMBDA r : whereCondition(stmt.Where, table.heap[r]))
             rowsToDelete ==
                IF table.PrimaryKey # <<>>
                THEN [i \in 1..Len(matching) |->
                        GetValue(table.heap[matching[i]], table.PrimaryKey)]
                ELSE <<>>
             r == DeleteLoop(table, rowsToDelete, 1)
         IN  IF whereError(stmt.Where) # Ok
             THEN [db |-> db, err |-> whereError(stmt.Where)]
             ELSE [db |-> [db EXCEPT ![stmt.TableName] = r.table],
                   err |-> r.err]

\* A nil *JoinClause: a SELECT without JOIN.
NilJoin == [node |-> "nil"]

JoinClause(tableName, on) ==
    [node |-> "JoinClause", TableName |-> tableName, On |-> on]

\* A *ResultSet.
ResultSet(columns, rows) == [Columns |-> columns, Rows |-> rows]

\* A faulty SelectRows that returns every row whatever the condition; C17
\* has to tell it from SelectRows.
SelectRowsUnfiltered(t, where) == t.Rows

\* Table.SelectRows: the pointers of the rows the condition accepts, in the
\* order of Rows.
SelectRows(t, where) ==
    SelectSeq(t.Rows, LAMBDA r : whereCondition(where, t.heap[r]))

\* The values of the row at rid under the given column names, one after the
\* other; nil under a name the row has no entry for.
RowUnder(t, rid, columnNames) ==
    [i \in 1..Len(columnNames) |-> GetValue(t.heap[rid], columnNames[i])]

\* A faulty parseJoinCondition that accepts every operator; C22 has to tell
\* it from parseJoinCondition.
parseJoinConditionAnyOperator(expr) ==
    IF extractColumnName(expr.Left).err # Ok
    THEN [leftCol |-> <<>>, rightCol |-> <<>>,
          err |-> extractColumnName(expr.Left).err]
    ELSE IF extractColumnName(expr.Right).err # Ok
    THEN [leftCol |-> <<>>, rightCol |-> <<>>,
          err |-> extractColumnName(expr.Right).err]
    ELSE [leftCol |-> extractColumnName(expr.Left).name,
          rightCol |-> extractColumnName(expr.Right).name, err |-> Ok]

\* Database.parseJoinCondition
parseJoinCondition(expr) ==
    IF expr.Operator # "="
    THEN [leftCol |-> <<>>, rightCol |-> <<>>, err |-> "only equality joins"]
    ELSE IF extractColumnName(expr.Left).err # Ok
    THEN [leftCol |-> <<>>, rightCol |-> <<>>,
          err |-> extractColumnName(expr.Left).err]
    ELSE IF extractColumnName(expr.Right).err # Ok
    THEN [leftCol |-> <<>>, rightCol |-> <<>>,
          err |-> extractColumnName(expr.Right).err]
    ELSE [leftCol |-> extractColumnName(expr.Left).name,
          rightCol |-> extractColumnName(expr.Right).name, err |-> Ok]

\* A faulty nested loop that walks the right table in the outer loop and the
\* left table in the inner loop; C19 has to tell it from JoinLoop.
RECURSIVE JoinLoopRightOuter(_, _, _, _, _, _)
JoinLoopRightOuter(leftTable, rightTable, leftCol, rightCol, i, j) ==
    IF j > Len(rightTable.Rows) THEN <<>>
    ELSE IF i > Len(leftTable.Rows)
    THEN JoinLoopRightOuter(leftTable, rightTable, leftCol, rightCol, 1, j + 1)
    ELSE LET leftRow == leftTable.Rows[i]
             rightRow == rightTable.Rows[j]
             leftValue == GetValue(leftTable.heap[leftRow], leftCol)
             rightValue == GetValue(rightTable.heap[rightRow], rightCol)
             rest == JoinLoopRightOuter(leftTable, rightTable, leftCol,
                                        rightCol, i + 1, j)
         IN  IF leftValue = rightValue
             THEN <<RowUnder(leftTable, leftRow, GetColumnNames(leftTable))
                        \o RowUnder(rightTable, rightRow,
                                    GetColumnNames(rightTable))>> \o rest
             ELSE rest

\* The nested loop of Database.executeJoinSelect (storage.go 420-439) from
\* the i-th row of the left table and the j-th row of the right table on.
RECURSIVE JoinLoop(_, _, _, _, _, _)
JoinLoop(leftTable, rightTable, leftCol, rightCol, i, j) ==
    IF i > Len(leftTable.Rows) THEN <<>>
    ELSE IF j > Len(rightTable.Rows)
    THEN JoinLoop(leftTable, rightTable, leftCol, rightCol, i + 1, 1)
    ELSE LET leftRow == leftTable.Rows[i]
             rightRow == rightTable.Rows[j]
             leftValue == GetValue(leftTable.heap[leftRow], leftCol)
             rightValue == GetValue(rightTable.heap[rightRow], rightCol)
             rest == JoinLoop(leftTable, rightTable, leftCol, rightCol, i, j + 1)
         IN  IF leftValue = rightValue
             THEN <<RowUnder(leftTable, leftRow, GetColumnNames(leftTable))
                        \o RowUnder(rightTable, rightRow,
                                    GetColumnNames(rightTable))>> \o rest
             ELSE rest

\* A faulty executeJoinSelect that names the right table's columns before
\* the left table's; C21 has to tell it from executeJoinSelect.
executeJoinSelectRightFirst(db, leftTable, stmt) ==
    IF stmt.Join.TableName \notin DOMAIN db
    THEN [result |-> Null, err |-> "no joined table"]
    ELSE LET rightTable == db[stmt.Join.TableName]
             cond == parseJoinCondition(stmt.Join.On)
         IN  IF cond.err # Ok THEN [result |-> Null, err |-> cond.err]
             ELSE [result |->
                     ResultSet(GetColumnNames(rightTable)
                                    \o GetColumnNames(leftTable),
                               JoinLoop(leftTable, rightTable,
                                        cond.leftCol, cond.rightCol, 1, 1)),
                   err |-> Ok]

\* Database.executeJoinSelect
executeJoinSelect(db, leftTable, stmt) ==
    IF stmt.Join.TableName \notin DOMAIN db
    THEN [result |-> Null, err |-> "no joined table"]
    ELSE LET rightTable == db[stmt.Join.TableName]
             cond == parseJoinCondition(stmt.Join.On)
         IN  IF cond.err # Ok THEN [result |-> Null, err |-> cond.err]
             ELSE [result |->
                     ResultSet(GetColumnNames(leftTable)
                                    \o GetColumnNames(rightTable),
                               JoinLoop(leftTable, rightTable,
                                        cond.leftCol, cond.rightCol, 1, 1)),
                   err |-> Ok]

\* Database.ExecuteSelect
ExecuteSelect(db, stmt) ==
    IF stmt.TableName \notin DOMAIN db
    THEN [result |-> Null, err |-> "no table"]
    ELSE IF whereError(stmt.Where) # Ok
    THEN [result |-> Null, err |-> whereError(stmt.Where)]
    ELSE IF stmt.Join # NilJoin
    THEN executeJoinSelect(db, db[stmt.TableName], stmt)
    ELSE LET table == db[stmt.TableName]
             rows == SelectRows(table, stmt.Where)
             star == /\ Len(stmt.Columns) = 1
                     /\ stmt.Columns[1].node = "StarExpression"
             bad == {i \in 1..Len(stmt.Columns) :
                        extractColumnName(stmt.Columns[i]).err # Ok}
             columnNames ==
                IF star THEN GetColumnNames(table)
                ELSE [i \in 1..Len(stmt.Columns) |->
                        extractColumnName(stmt.Columns[i]).name]
         IN  IF ~star /\ bad # {}
             THEN [result |-> Null,
                   err |-> extractColumnName(stmt.Columns[Min(bad)]).err]
             ELSE [result |->
                     ResultSet(columnNames,
                               [i \in 1..Len(rows) |->
                                    RowUnder(table, rows[i], columnNames)]),
                   err |-> Ok]

(***************************************************************************)
(* The persistence codec (engine/table.go 260-460).                        *)
(***************************************************************************)
\* strings.Join
RECURSIVE Join(_, _)
Join(parts, sep) ==
    IF parts = <<>> THEN <<>>
    ELSE IF Len(parts) = 1 THEN parts[1]
    ELSE parts[1] \o sep \o Join(Tail(parts), sep)

\* strings.Split on a one-character separator.
RECURSIVE Split(_, _)
Split(s, sep) ==
    LET at == {i \in 1..Len(s) : s[i] = sep}
    IN  IF at = {} THEN <<s>>
        ELSE <<SubSeq(s, 1, Min(at) - 1)>>
                \o Split(SubSeq(s, Min(at) + 1, Len(s)), sep)

\* The white space strings.TrimSpace removes.
IsSpace(c) == c \in {" ", "\t", "\n", "\r"}

\* strings.TrimSpace
TrimSpace(s) ==
    LET keep == {i \in 1..Len(s) : ~IsSpace(s[i])}
    IN  IF keep = {} THEN <<>>
        ELSE SubSeq(s, Min(keep), CHOOSE m \in keep : \A n \in keep : n <= m)

\* strings.ReplaceAll(v, "\"", "\"\"")
RECURSIVE EscapeQuotes(_)
EscapeQuotes(v) ==
    IF v = <<>> THEN <<>>
    ELSE IF Head(v) = "\"" THEN <<"\"", "\"">> \o EscapeQuotes(Tail(v))
    ELSE <<Head(v)>> \o EscapeQuotes(Tail(v))

\* strings.ReplaceAll(s, "\"\"", "\""): non-overlapping, left to right.
RECURSIVE UnescapeQuotes(_)
UnescapeQuotes(s) ==
    IF s = <<>> THEN <<>>
    ELSE IF Len(s) >= 2 /\ s[1] = "\"" /\ s[2] = "\""
    THEN <<"\"">> \o UnescapeQuotes(SubSeq(s, 3, Len(s)))
    ELSE <<Head(s)>> \o UnescapeQuotes(Tail(s))

DigitChars == <<"0", "1", "2", "3", "4", "5", "6", "7", "8", "9">>

\* fmt.Sprintf("%v", n) of an int.
RECURSIVE FormatInt(_)
FormatInt(n) ==
    IF n < 0 THEN <<"-">> \o FormatInt(-n)
    ELSE IF n < 10 THEN <<DigitChars[n + 1]>>
    ELSE FormatInt(n \div 10) \o <<DigitChars[(n % 10) + 1]>>

\* formatValue
formatValue(value) ==
    CASE value.kind = "text" ->
            IF \E i \in 1..Len(value.val) : value.val[i] \in {",", "\""}
            THEN <<"\"">> \o EscapeQuotes(value.val) \o <<"\"">>
            ELSE value.val
      [] value.kind = "bool" ->
            IF value.val THEN <<"t", "r", "u", "e">>
            ELSE <<"f", "a", "l", "s", "e">>
      [] OTHER -> FormatInt(value.val)

\* DataType.String (parser/ast.go 68-79)
DataTypeString(d) ==
    CASE d = DATATYPE_INTEGER -> <<"I", "N", "T", "E", "G", "E", "R">>
      [] d = DATATYPE_TEXT -> <<"T", "E", "X", "T">>
      [] d = DATATYPE_BOOLEAN -> <<"B", "O", "O", "L", "E", "A", "N">>
      [] OTHER -> <<"U", "N", "K", "N", "O", "W", "N">>

SchemaPrefix == <<"#", " ", "S", "C", "H", "E", "M", "A", ":", " ">>

PrimaryKeyFlag == <<"P", "R", "I", "M", "A", "R", "Y", "_", "K", "E", "Y">>

UniqueFlag == <<"U", "N", "I", "Q", "U", "E">>

\* Table.ToCSV
ToCSV(t) ==
    LET colDef(col) ==
            col.Name \o <<":">> \o DataTypeString(col.DataType)
                \o (IF col.PrimaryKey THEN <<":">> \o PrimaryKeyFlag ELSE <<>>)
                \o (IF col.Unique THEN <<":">> \o UniqueFlag ELSE <<>>)
        schemaParts == [i \in 1..Len(t.Columns) |-> colDef(t.Columns[i])]
        colNames == GetColumnNames(t)
        field(data, colName) ==
            IF GetValue(data, colName) = Null THEN <<>>
            ELSE formatValue(GetValue(data, colName))
        rowLine(rid) ==
            Join([j \in 1..Len(colNames) |-> field(t.heap[rid], colNames[j])],
                 <<",">>)
        lines == <<SchemaPrefix \o Join(schemaParts, <<",">>)>>
                    \o [i \in 1..Len(t.Rows) |-> rowLine(t.Rows[i])]
    IN  Join(lines, <<"\n">>)

\* parseDataType (table.go 390-401)
parseDataType(s) ==
    IF s = DataTypeString(DATATYPE_INTEGER) THEN DATATYPE_INTEGER
    ELSE IF s = DataTypeString(DATATYPE_BOOLEAN) THEN DATATYPE_BOOLEAN
    ELSE DATATYPE_TEXT

\* parseCSVLine from position i on: inQuotes is the state, current the field
\* being built, values the fields already closed.
RECURSIVE parseCSVFrom(_, _, _, _, _)
parseCSVFrom(line, i, inQuotes, current, values) ==
    IF i > Len(line) THEN Append(values, current)
    ELSE IF line[i] = "\"" /\ ~inQuotes
    THEN parseCSVFrom(line, i + 1, TRUE, current, values)
    ELSE IF line[i] = "\"" /\ inQuotes /\ i + 1 <= Len(line) /\ line[i + 1] = "\""
    THEN parseCSVFrom(line, i + 2, inQuotes, Append(current, "\""), values)
    ELSE IF line[i] = "\"" /\ inQuotes
    THEN parseCSVFrom(line, i + 1, FALSE, current, values)
    ELSE IF line[i] = "," /\ ~inQuotes
    THEN parseCSVFrom(line, i + 1, inQuotes, <<>>, Append(values, current))
    ELSE parseCSVFrom(line, i + 1, inQuotes, Append(current, line[i]), values)

\* parseCSVLine
parseCSVLine(line) == parseCSVFrom(line, 1, FALSE, <<>>, <<>>)

\* The value of a decimal digit, -1 for any other character.
DigitValue(c) ==
    IF \E d \in 1..10 : DigitChars[d] = c
    THEN (CHOOSE d \in 1..10 : DigitChars[d] = c) - 1
    ELSE -1

RECURSIVE DigitsValue(_, _)
DigitsValue(s, acc) ==
    IF s = <<>> THEN acc
    ELSE DigitsValue(Tail(s), acc * 10 + DigitValue(Head(s)))

\* strconv.Atoi: an optional sign and at least one decimal digit.
Atoi(s) ==
    LET body == IF s # <<>> /\ Head(s) \in {"-", "+"} THEN Tail(s) ELSE s
    IN  IF body = <<>> \/ \E i \in 1..Len(body) : DigitValue(body[i]) < 0
        THEN [value |-> Null, err |-> "invalid syntax"]
        ELSE [value |-> IntVal(IF s[1] = "-" THEN -DigitsValue(body, 0)
                                ELSE DigitsValue(body, 0)),
              err |-> Ok]

\* strings.ToLower on the letters the stored booleans can hold.
ToLower(s) ==
    [i \in 1..Len(s) |->
        CASE s[i] = "T" -> "t" [] s[i] = "R" -> "r" [] s[i] = "U" -> "u"
          [] s[i] = "E" -> "e" [] s[i] = "F" -> "f" [] s[i] = "A" -> "a"
          [] s[i] = "L" -> "l" [] s[i] = "S" -> "s" [] OTHER -> s[i]]

\* parseValue (table.go 403-431)
parseValue(str, dataType) ==
    LET s == TrimSpace(str)
    IN  IF s = <<>> THEN [value |-> Null, err |-> Ok]
        ELSE CASE dataType = DATATYPE_INTEGER -> Atoi(s)
               [] dataType = DATATYPE_BOOLEAN ->
                    IF ToLower(s) \in {<<"t", "r", "u", "e">>, <<"1">>}
                    THEN [value |-> BoolVal(TRUE), err |-> Ok]
                    ELSE IF ToLower(s) \in {<<"f", "a", "l", "s", "e">>, <<"0">>}
                    THEN [value |-> BoolVal(FALSE), err |-> Ok]
                    ELSE [value |-> Null, err |-> "invalid boolean value"]
               [] dataType = DATATYPE_TEXT ->
                    IF Len(s) >= 2 /\ s[1] = "\"" /\ s[Len(s)] = "\""
                    THEN [value |-> TextVal(UnescapeQuotes(SubSeq(s, 2, Len(s) - 1))),
                          err |-> Ok]
                    ELSE [value |-> TextVal(s), err |-> Ok]
               [] OTHER -> [value |-> TextVal(s), err |-> Ok]

\* The schema half of TableFromCSV (table.go 329-355): the columns of one
\* descriptor name:TYPE[:PRIMARY_KEY][:UNIQUE].
ParseColDef(colDef) ==
    LET parts == Split(TrimSpace(colDef), ":")
    IN  IF Len(parts) < 2 THEN [col |-> Null, err |-> "invalid column definition"]
        ELSE [col |-> Column(parts[1], parseDataType(parts[2]),
                             \E i \in 3..Len(parts) : parts[i] = PrimaryKeyFlag,
                             \E i \in 3..Len(parts) : parts[i] = UniqueFlag),
              err |-> Ok]

\* The loop "Parse data rows" of TableFromCSV (table.go 360-384) from line i.
RECURSIVE LoadRows(_, _, _)
LoadRows(table, lines, i) ==
    IF i > Len(lines) THEN [table |-> table, err |-> Ok]
    ELSE LET line == TrimSpace(lines[i])
             values == parseCSVLine(line)
             parsed == [j \in 1..Len(values) |->
                            parseValue(values[j], table.Columns[j].DataType)]
             names == Range(GetColumnNames(table))
             data == [c \in names |->
                        parsed[CHOOSE j \in 1..Len(table.Columns) :
                                /\ table.Columns[j].Name = c
                                /\ \A k \in 1..Len(table.Columns) :
                                    table.Columns[k].Name = c => k <= j].value]
             r == InsertRow(table, NewRow(table), data)
         IN  IF line = <<>> THEN LoadRows(table, lines, i + 1)
             ELSE IF Len(values) # Len(table.Columns)
             THEN [table |-> Null, err |-> "value count"]
             ELSE IF \E j \in 1..Len(values) : parsed[j].err # Ok
             THEN [table |-> Null, err |-> "error parsing value"]
             ELSE IF r.err # Ok THEN [table |-> Null, err |-> r.err]
             ELSE LoadRows(r.table, lines, i + 1)

\* strings.HasPrefix
HasPrefix(s, prefix) ==
    Len(s) >= Len(prefix) /\ SubSeq(s, 1, Len(prefix)) = prefix

\* TableFromCSV
TableFromCSV(name, csvData) ==
    LET lines == Split(csvData, "\n")
        schemaLine == lines[1]
        schemaStr == SubSeq(schemaLine, Len(SchemaPrefix) + 1, Len(schemaLine))
        colDefs == Split(schemaStr, ",")
        cols == [i \in 1..Len(colDefs) |-> ParseColDef(colDefs[i])]
        columns == [i \in 1..Len(colDefs) |-> cols[i].col]
    IN  IF ~HasPrefix(schemaLine, SchemaPrefix)
        THEN [table |-> Null, err |-> "invalid schema line"]
        ELSE IF \E i \in 1..Len(colDefs) : cols[i].err # Ok
        THEN [table |-> Null, err |-> "invalid column definition"]
        ELSE LoadRows(NewTable(name, columns), lines, 2)

(***************************************************************************)
(* The statements the model executes.                                      *)
(***************************************************************************)
id == <<"i", "d">>

nm == <<"n", "m">>

ok == <<"o", "k">>

TableNames == {"users", "notes"}

\* users has a primary key and a unique column, notes has no primary key.
UsersColumns ==
    <<Column(id, DATATYPE_INTEGER, TRUE, FALSE),
      Column(nm, DATATYPE_TEXT, FALSE, TRUE)>>

NotesColumns ==
    <<Column(nm, DATATYPE_TEXT, FALSE, TRUE),
      Column(ok, DATATYPE_BOOLEAN, FALSE, FALSE)>>

CreateStmts ==
    {[TableName |-> "users", Columns |-> UsersColumns],
     [TableName |-> "notes", Columns |-> NotesColumns]}

Keys == {IntVal(1), IntVal(2)}

Names == {TextVal(<<"a">>), TextVal(<<"b">>)}

Vals == Keys \cup Names \cup {BoolVal(TRUE), Null}

InsertStmts ==
    {[TableName |-> n, Values |-> <<Literal(v), Literal(w)>>] :
        n \in TableNames, v \in Keys \cup Names, w \in Names \cup {BoolVal(TRUE)}}

\* WHERE clauses: none, or one comparison of a column with a literal.
Wheres ==
    {NilExpr}
        \cup {BinaryExpression(Identifier(id), "=", Literal(k)) : k \in Keys}
        \cup {BinaryExpression(Identifier(nm), "=", Literal(TextVal(<<"a">>)))}

\* SET clauses: the key, the name (a value of the column's type or not), or
\* the key together with a name of the wrong type.
Sets ==
    {[c \in {id} |-> Literal(IntVal(2))]}
        \cup {[c \in {nm} |-> Literal(v)] : v \in {TextVal(<<"a">>), IntVal(1)}}
        \cup {[c \in {id, nm} |->
                IF c = id THEN Literal(IntVal(2)) ELSE Literal(IntVal(1))]}

UpdateStmts ==
    {[TableName |-> n, Set |-> s, Where |-> w] :
        n \in TableNames, s \in Sets, w \in Wheres}

DeleteStmts == {[TableName |-> n, Where |-> w] : n \in TableNames, w \in Wheres}

\* The orders in which a range over a map with these keys can visit them.
Orders(keys) ==
    {o \in [1..Cardinality(keys) -> keys] :
        \A i, j \in 1..Cardinality(keys) : i # j => o[i] # o[j]}

\* The number of rows in the database.
TotalRows(db) ==
    LET RECURSIVE Sum(_)
        Sum(S) == IF S = {} THEN 0
                  ELSE LET n == CHOOSE x \in S : TRUE
                       IN  Len(db[n].Rows) + Sum(S \ {n})
    IN  Sum(DOMAIN db)

\* The record of a call: key is the primary-key value passed to UpdateRow or
\* DeleteRow, rid the row pointer passed to InsertRow, args the row's Data
\* passed to InsertRow or the updates map passed to UpdateRow.
NoCall ==
    [op |-> "none", name |-> "", err |-> Ok, key |-> Null, rid |-> 0,
     args |-> EmptyMap]

NotLoaded == [table |-> Null, err |-> "not loaded"]

\* No request is being served.
NoRequests == <<>>

\* No lexer was made.
NoLexer == [input |-> <<>>, pos |-> 0, current |-> ""]

(***************************************************************************)
(* PersistedDatabase (the first half of engine/storage.go).                *)
(***************************************************************************)
\* A faulty SaveTable that creates the file of a table and never overwrites
\* it; C7 has to tell it from SaveTable.
SaveTableOnce(dir, table) ==
    [n \in (DOMAIN dir) \cup {table.Name} |->
        IF n \in DOMAIN dir THEN dir[n] ELSE ToCSV(table)]

\* Storage.SaveTable: the file of the table is overwritten with its ToCSV.
SaveTable(dir, table) ==
    [n \in (DOMAIN dir) \cup {table.Name} |->
        IF n = table.Name THEN ToCSV(table) ELSE dir[n]]

\* The files after a statement on table name whose execution returned r:
\* the statement's table is saved only when the execution returned no error.
SaveAfter(dir, r, name) ==
    IF r.err = Ok THEN SaveTable(dir, r.db[name]) ELSE dir

\* NewPersistedDatabase on an empty data directory.
Init ==
    /\ tables = EmptyMap
    /\ files = EmptyMap
    /\ loaded = NotLoaded
    /\ last = NoCall
    /\ result = Null
    /\ requests = NoRequests
    /\ lexer = NoLexer

\* PersistedDatabase.ExecuteCreateTable
PExecuteCreateTable(stmt) ==
    LET r == ExecuteCreateTable(tables, stmt)
    IN  /\ tables' = r.db
        /\ files' = SaveAfter(files, r, stmt.TableName)
        /\ last' = [NoCall EXCEPT !.op = "ExecuteCreateTable",
                                  !.name = stmt.TableName, !.err = r.err]
        /\ UNCHANGED <<loaded, result, requests, lexer>>

\* PersistedDatabase.ExecuteInsert
PExecuteInsert(stmt) ==
    LET r == ExecuteInsert(tables, stmt)
    IN  /\ TotalRows(tables) < MaxRows
        /\ tables' = r.db
        /\ files' = SaveAfter(files, r, stmt.TableName)
        /\ last' = [NoCall EXCEPT !.op = "ExecuteInsert",
                                  !.name = stmt.TableName, !.err = r.err]
        /\ UNCHANGED <<loaded, result, requests, lexer>>

\* PersistedDatabase.ExecuteUpdate
PExecuteUpdate(stmt, order) ==
    LET r == ExecuteUpdate(tables, stmt, order)
    IN  /\ tables' = r.db
        /\ files' = SaveAfter(files, r, stmt.TableName)
        /\ last' = [NoCall EXCEPT !.op = "ExecuteUpdate",
                                  !.name = stmt.TableName, !.err = r.err]
        /\ UNCHANGED <<loaded, result, requests, lexer>>

\* PersistedDatabase.ExecuteDelete
PExecuteDelete(stmt) ==
    LET r == ExecuteDelete(tables, stmt)
    IN  /\ tables' = r.db
        /\ files' = SaveAfter(files, r, stmt.TableName)
        /\ last' = [NoCall EXCEPT !.op = "ExecuteDelete",
                                  !.name = stmt.TableName, !.err = r.err]
        /\ UNCHANGED <<loaded, result, requests, lexer>>

Next ==
    \/ \E stmt \in CreateStmts : PExecuteCreateTable(stmt)
    \/ \E stmt \in InsertStmts : PExecuteInsert(stmt)
    \/ \E stmt \in UpdateStmts : \E order \in Orders(DOMAIN stmt.Set) :
            PExecuteUpdate(stmt, order)
    \/ \E stmt \in DeleteStmts : PExecuteDelete(stmt)

Spec == Init /\ [][Next]_vars

(***************************************************************************)
(* The Table methods called directly on one table with a primary key.      *)
(***************************************************************************)
\* A column that carries both flags: the parser cannot produce it, a
\* ColumnDefinition and a schema line PRIMARY_KEY:UNIQUE can.
KeyedColumns ==
    <<Column(id, DATATYPE_INTEGER, TRUE, TRUE),
      Column(nm, DATATYPE_TEXT, FALSE, FALSE)>>

KeyedSchemas == {UsersColumns, KeyedColumns}

zz == <<"z", "z">>

\* Rows as ExecuteInsert and TableFromCSV build them: one value per column.
TableRows == [{id, nm} -> Keys \cup Names]

\* Update maps: one or two columns, values of the right and of the wrong
\* type, and a column the table does not declare.
TableUpdates ==
    [{id} -> Keys \cup Names] \cup [{nm} -> Keys \cup Names]
        \cup [{id, nm} -> Keys \cup Names]
        \cup [{zz} -> {IntVal(1)}] \cup [{nm, zz} -> {TextVal(<<"a">>)}]

InitTable ==
    /\ \E columns \in KeyedSchemas :
            tables = [n \in {"users"} |-> NewTable(n, columns)]
    /\ files = EmptyMap
    /\ loaded = NotLoaded
    /\ last = NoCall
    /\ result = Null
    /\ requests = NoRequests
    /\ lexer = NoLexer

\* Table.InsertRow on table n.
TableInsertRow(n, data) ==
    LET rid == NewRow(tables[n])
        r == InsertRow(tables[n], rid, data)
    IN  /\ Len(tables[n].Rows) < MaxRows
        /\ tables' = [tables EXCEPT ![n] = r.table]
        /\ last' = [NoCall EXCEPT !.op = "InsertRow", !.name = n,
                                  !.err = r.err, !.rid = rid, !.args = data]
        /\ UNCHANGED <<files, loaded, result, requests, lexer>>

\* Table.UpdateRow on table n.
TableUpdateRow(n, pkValue, updates, order) ==
    LET r == UpdateRow(tables[n], pkValue, updates, order)
    IN  /\ tables' = [tables EXCEPT ![n] = r.table]
        /\ last' = [NoCall EXCEPT !.op = "UpdateRow", !.name = n,
                                  !.err = r.err, !.key = pkValue,
                                  !.args = updates]
        /\ UNCHANGED <<files, loaded, result, requests, lexer>>

\* Table.DeleteRow on table n.
TableDeleteRow(n, pkValue) ==
    LET r == DeleteRow(tables[n], pkValue)
    IN  /\ tables' = [tables EXCEPT ![n] = r.table]
        /\ last' = [NoCall EXCEPT !.op = "DeleteRow", !.name = n,
                                  !.err = r.err, !.key = pkValue]
        /\ UNCHANGED <<files, loaded, result, requests, lexer>>

NextInsert == \E data \in TableRows : TableInsertRow("users", data)

NextTable ==
    \/ \E data \in TableRows : TableInsertRow("users", data)
    \/ \E pkValue \in Keys : \E updates \in TableUpdates :
        \E order \in Orders(DOMAIN updates) :
            TableUpdateRow("users", pkValue, updates, order)
    \/ \E pkValue \in Keys : TableDeleteRow("users", pkValue)

SpecTable == InitTable /\ [][NextTable]_vars

\* A table that only ever sees InsertRow.
SpecInsert == InitTable /\ [][NextInsert]_vars

(***************************************************************************)
(* The codec applied to tables built through InsertRow.                    *)
(***************************************************************************)
\* The three data types and both constraint flags.
CodecColumns ==
    <<Column(id, DATATYPE_INTEGER, TRUE, FALSE),
      Column(nm, DATATYPE_TEXT, FALSE, TRUE),
      Column(ok, DATATYPE_BOOLEAN, FALSE, FALSE)>>

\* Letters, space, comma and double quote.
Alphabet == {"a", " ", ",", "\""}

\* Every string over the alphabet up to MaxLen characters, the empty one too.
Texts == UNION {[1..n -> Alphabet] : n \in 0..MaxLen}

CodecRows ==
    {[c \in {id, nm, ok} |->
        IF c = id THEN k ELSE IF c = nm THEN TextVal(s) ELSE BoolVal(b)] :
            k \in Keys, s \in Texts, b \in BOOLEAN}

InitCodec ==
    /\ tables = [n \in {"users"} |-> NewTable(n, CodecColumns)]
    /\ files = EmptyMap
    /\ loaded = NotLoaded
    /\ last = NoCall
    /\ result = Null
    /\ requests = NoRequests
    /\ lexer = NoLexer

\* TableFromCSV(name, table.ToCSV()) on table n.
RoundTrip(n) ==
    /\ loaded' = TableFromCSV(n, ToCSV(tables[n]))
    /\ last' = [NoCall EXCEPT !.op = "TableFromCSV", !.name = n,
                              !.err = loaded'.err]
    /\ UNCHANGED <<tables, files, result, requests, lexer>>

NextCodec ==
    \/ \E data \in CodecRows : TableInsertRow("users", data)
    \/ RoundTrip("users")

SpecCodec == InitCodec /\ [][NextCodec]_vars

\* The values of a table's rows, row by row in the order of Rows, each row in
\* the order of the columns.
RowValues(t) ==
    [i \in 1..Len(t.Rows) |->
        [j \in 1..Len(t.Columns) |->
            GetValue(t.heap[t.Rows[i]], t.Columns[j].Name)]]

(***************************************************************************)
(* Properties.                                                             *)
(***************************************************************************)
\* The mutating statements of PersistedDatabase.
Mutating ==
    {"ExecuteCreateTable", "ExecuteInsert", "ExecuteUpdate", "ExecuteDelete"}

\* The row's value in the primary-key column of its table.
KeyOf(t, rid) == GetValue(t.heap[rid], t.PrimaryKey)

\* C1: no two rows of a table that declares a primary key hold equal values
\* in the primary-key column, in every state that CREATE TABLE, INSERT, UPDATE
\* and DELETE statements reach.
C1_PrimaryKeyUnique ==
    \A n \in DOMAIN tables :
        LET t == tables[n]
        IN  t.PrimaryKey # <<>> =>
                \A i, j \in 1..Len(t.Rows) :
                    i # j => KeyOf(t, t.Rows[i]) # KeyOf(t, t.Rows[j])

\* C2: no two rows of a table hold equal non-null values in a column flagged
\* UNIQUE, in every state that statements reach, the failed ones counted.
C2_UniqueColumns ==
    \A n \in DOMAIN tables :
        LET t == tables[n]
        IN  \A c \in 1..Len(t.Columns) :
                t.Columns[c].Unique =>
                    \A i, j \in 1..Len(t.Rows) :
                        LET v == GetValue(t.heap[t.Rows[i]], t.Columns[c].Name)
                            w == GetValue(t.heap[t.Rows[j]], t.Columns[c].Name)
                        IN  i # j /\ v # Null => v # w

\* C3: for a table built through InsertRow over INTEGER, TEXT and BOOLEAN
\* columns with both flags, TableFromCSV(name, table.ToCSV()) succeeds and
\* returns the same column definitions and the same row values in the same
\* order, for every TEXT value over letters, space, comma and double quote.
C3_RoundTrip ==
    last.op = "TableFromCSV" =>
        /\ loaded.err = Ok
        /\ loaded.table.Columns = tables[last.name].Columns
        /\ RowValues(loaded.table) = RowValues(tables[last.name])

\* C4: right after a successful InsertRow of a row with primary-key value v,
\* FindRowByPrimaryKey(v) returns exactly that row; right after a successful
\* DeleteRow(k), FindRowByPrimaryKey(k) returns nil.
C4_IndexConsistency ==
    \A n \in DOMAIN tables :
        LET t == tables[n]
        IN  /\ (last.name = n /\ last.op = "InsertRow" /\ last.err = Ok) =>
                    /\ FindRowByPrimaryKey(t, last.args[t.PrimaryKey]) = last.rid
                    /\ t.heap[last.rid] = last.args
                    /\ t.Rows[Len(t.Rows)] = last.rid
            /\ (last.name = n /\ last.op = "DeleteRow" /\ last.err = Ok) =>
                    FindRowByPrimaryKey(t, last.key) = 0

\* C4 witness: an insert succeeded in a table where an earlier update had
\* changed the other row's key.
C4_Witness ==
    /\ last.op = "InsertRow"
    /\ last.err = Ok
    /\ LET t == tables[last.name]
       IN  /\ Len(t.Rows) = 2
           /\ \E k \in DOMAIN t.index : KeyOf(t, t.index[k]) # k

\* C5: in a table with a primary key reached by inserts only, an insert whose
\* primary-key value equals that of a row already in the table returns an
\* error and leaves the rows (count, order, values) and the index unchanged.
C5_DuplicateKeyRejected ==
    [][\A n \in DOMAIN tables :
        LET t == tables[n]
        IN  (/\ last'.op = "InsertRow"
             /\ last'.name = n
             /\ \E i \in 1..Len(t.Rows) :
                    KeyOf(t, t.Rows[i]) = last'.args[t.PrimaryKey])
                => (last'.err # Ok /\ tables' = tables)]_vars

\* C5 witness: an insert was refused for its key alone: the row is of the
\* right types and its name is in no row.
C5_Witness ==
    /\ last.op = "InsertRow"
    /\ last.err # Ok
    /\ LET t == tables[last.name]
       IN  /\ last.args[id].kind = "int"
           /\ last.args[nm].kind = "text"
           /\ \E i \in 1..Len(t.Rows) : KeyOf(t, t.Rows[i]) = last.args[id]
           /\ \A i \in 1..Len(t.Rows) :
                GetValue(t.heap[t.Rows[i]], nm) # last.args[nm]

\* C6: every row of every table has an entry for each declared column and
\* none for an undeclared one, and each entry is of the column's declared
\* type or Null, for tables with and without a primary key.
C6_RowsMatchSchema ==
    \A n \in DOMAIN tables :
        LET t == tables[n]
        IN  \A i \in 1..Len(t.Rows) :
                LET data == t.heap[t.Rows[i]]
                IN  /\ DOMAIN data = Range(GetColumnNames(t))
                    /\ \A c \in 1..Len(t.Columns) :
                        \/ data[t.Columns[c].Name] = Null
                        \/ validateValueType(t.Columns[c],
                                             data[t.Columns[c].Name]) = Ok

\* C7: after every mutating statement that PersistedDatabase reports as
\* successful, the file of the statement's table holds the ToCSV of the
\* table's state in memory and the files of all other tables are unchanged.
C7_SavedOnSuccess ==
    [][(last'.op \in Mutating /\ last'.err = Ok) =>
        /\ DOMAIN files' = (DOMAIN files) \cup {last'.name}
        /\ files'[last'.name] = ToCSV(tables'[last'.name])
        /\ \A n \in (DOMAIN files') \ {last'.name} : files'[n] = files[n]]_vars

\* C7 witness: an UPDATE succeeded on a table with rows while the other
\* table has a file of its own.
C7_Witness ==
    /\ last.op = "ExecuteUpdate"
    /\ last.err = Ok
    /\ Len(tables[last.name].Rows) > 0
    /\ Cardinality(DOMAIN files) = 2

\* C8: ExecuteDelete on a table that declares no primary key returns an
\* error, for every WHERE clause and without one, and removes no row.
C8_DeleteNeedsPrimaryKey ==
    [][(/\ last'.op = "ExecuteDelete"
        /\ last'.name \in DOMAIN tables
        /\ tables[last'.name].PrimaryKey = <<>>)
            => (/\ last'.err # Ok
                /\ tables'[last'.name].Rows = tables[last'.name].Rows)]_vars

\* The row's Data after every entry of the updates map has been written.
Overridden(data, updates) ==
    [c \in (DOMAIN data) \cup (DOMAIN updates) |->
        IF c \in DOMAIN updates THEN updates[c] ELSE data[c]]

\* Every entry of the updates map names a declared column and carries a value
\* of the column's type: the first loop of UpdateRow writes all of them.
AllApplied(t, updates) ==
    \A c \in DOMAIN updates :
        /\ findColumn(t, c) # 0
        /\ validateValueType(t.Columns[findColumn(t, c)], updates[c]) = Ok

\* C9: when the values that UpdateRow writes give the target row a non-null
\* value in a UNIQUE column that another row holds, UpdateRow returns an
\* error, the target row keeps all the new values, and every other row, the
\* row sequence and the index are unchanged.
C9_UniqueViolationNoRollback ==
    [][\A n \in DOMAIN tables :
        LET t == tables[n]
            rid == FindRowByPrimaryKey(t, last'.key)
            updates == last'.args
        IN  (/\ last'.op = "UpdateRow"
             /\ last'.name = n
             /\ rid # 0
             /\ AllApplied(t, updates)
             /\ \E i \in 1..Len(t.Columns) :
                    LET c == t.Columns[i].Name
                    IN  /\ t.Columns[i].Unique
                        /\ c \in DOMAIN updates
                        /\ updates[c] # Null
                        /\ \E j \in 1..Len(t.Rows) :
                            /\ t.Rows[j] # rid
                            /\ GetValue(t.heap[t.Rows[j]], c) = updates[c])
                => (/\ last'.err # Ok
                    /\ tables'[n].heap[rid] = Overridden(t.heap[rid], updates)
                    /\ \A r \in (DOMAIN t.heap) \ {rid} :
                            tables'[n].heap[r] = t.heap[r]
                    /\ tables'[n].Rows = t.Rows
                    /\ tables'[n].index = t.index)]_vars

\* C10: after a successful UpdateRow(k, ...) on the row that holds k in its
\* primary-key column and leaves it holding k' # k, the index is unchanged:
\* FindRowByPrimaryKey(k) returns the updated row and FindRowByPrimaryKey(k')
\* returns what it returned before the update.
C10_IndexNotRelocated ==
    [][\A n \in DOMAIN tables :
        LET t == tables[n]
            rid == FindRowByPrimaryKey(t, last'.key)
        IN  (/\ last'.op = "UpdateRow"
             /\ last'.name = n
             /\ last'.err = Ok
             /\ rid # 0
             /\ KeyOf(t, rid) = last'.key
             /\ KeyOf(tables'[n], rid) # KeyOf(t, rid))
                => (/\ tables'[n].index = t.index
                    /\ FindRowByPrimaryKey(tables'[n], KeyOf(t, rid)) = rid
                    /\ FindRowByPrimaryKey(tables'[n], KeyOf(tables'[n], rid))
                        = FindRowByPrimaryKey(t, KeyOf(tables'[n], rid)))]_vars

\* C10 as stated, for every successful UpdateRow that changes the primary-key
\* column of the row it finds from k to k' # k, whatever key the row is
\* indexed under.
C10_AnyIndexedRow ==
    [][\A n \in DOMAIN tables :
        LET t == tables[n]
            rid == FindRowByPrimaryKey(t, last'.key)
        IN  (/\ last'.op = "UpdateRow"
             /\ last'.name = n
             /\ last'.err = Ok
             /\ rid # 0
             /\ KeyOf(tables'[n], rid) # KeyOf(t, rid))
                => (/\ tables'[n].index = t.index
                    /\ FindRowByPrimaryKey(tables'[n], KeyOf(t, rid)) = rid
                    /\ FindRowByPrimaryKey(tables'[n], KeyOf(tables'[n], rid))
                        = FindRowByPrimaryKey(t, KeyOf(tables'[n], rid)))]_vars

\* C10 witness: an update succeeded that set the key of the row indexed under
\* k to the key k' of the other row; the index still maps k to the updated
\* row and k' to the other row.
C10_Witness ==
    /\ last.op = "UpdateRow"
    /\ last.err = Ok
    /\ id \in DOMAIN last.args
    /\ last.args[id] # last.key
    /\ LET t == tables[last.name]
           rid == FindRowByPrimaryKey(t, last.key)
           other == FindRowByPrimaryKey(t, last.args[id])
       IN  /\ rid # 0
           /\ other # 0
           /\ other # rid
           /\ KeyOf(t, rid) = last.args[id]
           /\ KeyOf(t, other) = last.args[id]

(***************************************************************************)
(* InsertRow with rows that hold nil.                                      *)
(***************************************************************************)
\* Rows whose values are integers, strings or nil.
NullRows == [{id, nm} -> Keys \cup Names \cup {Null}]

NextNull == \E data \in NullRows : TableInsertRow("users", data)

\* A table with a primary key that sees InsertRow of rows with nil values.
SpecNull == InitTable /\ [][NextNull]_vars

\* The column is flagged UNIQUE and is not the primary key.
UniqueOnly(col) == col.Unique /\ ~col.PrimaryKey

\* C11: an insert whose row holds Null in a UNIQUE column and is otherwise
\* acceptable (every other value of its column's type, a new primary key, no
\* non-null UNIQUE value already in the table) succeeds, whether or not a row
\* with Null in that column is already there; an insert whose row holds in a
\* UNIQUE column a non-null value that a row already holds returns an error.
C11_NullsExemptFromUnique ==
    [][\A n \in DOMAIN tables :
        LET t == tables[n]
            data == last'.args
            held(c, v) == \E j \in 1..Len(t.Rows) :
                                GetValue(t.heap[t.Rows[j]], c) = v
        IN  (last'.op = "InsertRow" /\ last'.name = n) =>
                /\ (/\ \E i \in 1..Len(t.Columns) :
                            /\ UniqueOnly(t.Columns[i])
                            /\ data[t.Columns[i].Name] = Null
                    /\ \A i \in 1..Len(t.Columns) :
                        LET c == t.Columns[i].Name
                        IN  IF UniqueOnly(t.Columns[i]) /\ data[c] = Null
                            THEN TRUE
                            ELSE /\ validateValueType(t.Columns[i], data[c]) = Ok
                                 /\ t.Columns[i].Unique => ~held(c, data[c])
                    /\ ~held(t.PrimaryKey, data[t.PrimaryKey]))
                        => last'.err = Ok
                /\ (\E i \in 1..Len(t.Columns) :
                        LET c == t.Columns[i].Name
                        IN  /\ t.Columns[i].Unique
                            /\ data[c] # Null
                            /\ held(c, data[c]))
                        => last'.err # Ok]_vars

(***************************************************************************)
(* The journal server: Handler.CreateEntry (handlers/handlers.go) on       *)
(* JournalDB (go-journal-server/README.md). net/http serves every request  *)
(* in a goroutine of its own; neither Handler nor JournalDB holds a lock,  *)
(* so the engine calls of two requests interleave.                         *)
(***************************************************************************)
\* The requests served at the same time.
MaxRequests == 2

title == <<"t", "i", "t", "l", "e">>

content == <<"c", "o", "n", "t", "e", "n", "t">>

created_at == <<"c", "r", "e", "a", "t", "e", "d", "_", "a", "t">>

updated_at == <<"u", "p", "d", "a", "t", "e", "d", "_", "a", "t">>

tags == <<"t", "a", "g", "s">>

\* JournalDB.initSchema: the columns of the table entries.
EntriesColumns ==
    <<Column(id, DATATYPE_INTEGER, TRUE, FALSE),
      Column(title, DATATYPE_TEXT, FALSE, FALSE),
      Column(content, DATATYPE_TEXT, FALSE, FALSE),
      Column(created_at, DATATYPE_TEXT, FALSE, FALSE),
      Column(updated_at, DATATYPE_TEXT, FALSE, FALSE),
      Column(tags, DATATYPE_TEXT, FALSE, FALSE)>>

\* The bodies of the requests: Title, Content and Tags of CreateEntryRequest.
CreateEntryRequests ==
    [Title : {<<>>, <<"a">>, <<"b">>}, Content : {<<>>, <<"b">>},
     Tags : {<<>>, <<(<<"a">>)>>}]

\* now.Format(time.RFC3339); the requests arrive within the same second.
Now == <<"1">>

\* A request that has not arrived.
Idle ==
    [pc |-> "idle", req |-> [Title |-> <<>>, Content |-> <<>>, Tags |-> <<>>],
     nextID |-> 0, status |-> 0]

\* The maximum loop of JournalDB.getNextID over the rows of the result set,
\* from row i on with the maximum so far.
RECURSIVE MaxIDFrom(_, _, _)
MaxIDFrom(rs, i, maxID) ==
    IF i > Len(rs.Rows) THEN maxID
    ELSE LET at == {c \in 1..Len(rs.Columns) :
                        rs.Columns[c] = id /\ c <= Len(rs.Rows[i])}
             \* a later column of the same name overwrites data["id"]
             idVal == rs.Rows[i][CHOOSE c \in at : \A d \in at : d <= c]
             v == IF at = {} THEN 0
                  ELSE IF idVal.kind = "int" THEN idVal.val
                  ELSE IF idVal.kind = "text" /\ Atoi(idVal.val).err = Ok
                  THEN Atoi(idVal.val).value.val
                  ELSE 0
         IN  MaxIDFrom(rs, i + 1, IF v > maxID THEN v ELSE maxID)

\* The SELECT statement of JournalDB.getNextID.
NextIDSelect ==
    [TableName |-> "entries", Columns |-> <<Identifier(id)>>,
     Where |-> NilExpr, Join |-> NilJoin]

\* JournalDB.getNextID
getNextID(db) ==
    LET r == ExecuteSelect(db, NextIDSelect)
    IN  IF r.err # Ok THEN 1 ELSE MaxIDFrom(r.result, 1, 0) + 1

\* The INSERT statement of JournalDB.CreateEntry.
EntryInsert(nextID, req) ==
    [TableName |-> "entries",
     Values |-> <<Literal(IntVal(nextID)), Literal(TextVal(req.Title)),
                  Literal(TextVal(req.Content)), Literal(TextVal(Now)),
                  Literal(TextVal(Now)),
                  Literal(TextVal(IF Join(req.Tags, <<",">>) = <<>>
                                  THEN <<",">> ELSE Join(req.Tags, <<",">>)))>>]

\* NewJournalDB on an empty data directory: the table entries is created and
\* saved; no request has arrived.
InitJournal ==
    LET r == ExecuteCreateTable(EmptyMap, [TableName |-> "entries",
                                           Columns |-> EntriesColumns])
    IN  /\ tables = r.db
        /\ files = SaveAfter(EmptyMap, r, "entries")
        /\ loaded = NotLoaded
        /\ last = NoCall
        /\ result = Null
        /\ requests = [r0 \in 1..MaxRequests |-> Idle]
        /\ lexer = NoLexer

\* Handler.CreateEntry up to the call of JournalDB.CreateEntry: the body is
\* decoded and checked (handlers.go 22-31).
CreateEntryDecode(r, req) ==
    /\ requests[r].pc = "idle"
    /\ requests' = [requests EXCEPT ![r] =
            IF req.Title = <<>> \/ req.Content = <<>>
            THEN [Idle EXCEPT !.pc = "done", !.req = req, !.status = 400]
            ELSE [Idle EXCEPT !.pc = "getNextID", !.req = req]]
    /\ UNCHANGED <<tables, files, loaded, last, result, lexer>>

\* JournalDB.CreateEntry up to the return of getNextID.
CreateEntryGetNextID(r) ==
    /\ requests[r].pc = "getNextID"
    /\ requests' = [requests EXCEPT ![r].pc = "insert",
                                    ![r].nextID = getNextID(tables)]
    /\ result' = ExecuteSelect(tables, NextIDSelect).result
    /\ last' = [NoCall EXCEPT
                    !.op = "ExecuteSelect", !.name = NextIDSelect.TableName,
                    !.err = ExecuteSelect(tables, NextIDSelect).err]
    /\ UNCHANGED <<tables, files, loaded, lexer>>

\* JournalDB.CreateEntry from the INSERT on and the response of
\* Handler.CreateEntry (handlers.go 33-40): 201 with the entry, 500 on error.
CreateEntryInsert(r) ==
    LET stmt == EntryInsert(requests[r].nextID, requests[r].req)
        x == ExecuteInsert(tables, stmt)
    IN  /\ requests[r].pc = "insert"
        /\ tables' = x.db
        /\ files' = SaveAfter(files, x, stmt.TableName)
        /\ last' = [NoCall EXCEPT !.op = "ExecuteInsert",
                                  !.name = stmt.TableName, !.err = x.err]
        /\ requests' = [requests EXCEPT
                ![r].pc = "done",
                ![r].status = IF x.err = Ok THEN 201 ELSE 500]
        /\ UNCHANGED <<loaded, result, lexer>>

NextJournal ==
    \/ \E r \in 1..MaxRequests : \E req \in CreateEntryRequests :
            CreateEntryDecode(r, req)
    \/ \E r \in 1..MaxRequests : CreateEntryGetNextID(r)
    \/ \E r \in 1..MaxRequests : CreateEntryInsert(r)

SpecJournal == InitJournal /\ [][NextJournal]_vars

\* C12: two CreateEntry requests with a title and a content, served at the
\* same time with their engine calls interleaved, both succeed (201) and
\* their entries have distinct ids.
C12_ConcurrentCreateEntry ==
    \A r1, r2 \in 1..MaxRequests :
        (/\ r1 # r2
         /\ requests[r1].pc = "done" /\ requests[r1].status # 400
         /\ requests[r2].pc = "done" /\ requests[r2].status # 400)
            => (/\ requests[r1].status = 201
                /\ requests[r2].status = 201
                /\ requests[r1].nextID # requests[r2].nextID)

\* C13: ExecuteCreateTable for a name that is already a table returns an
\* error and leaves that table (columns, rows, index) unchanged; through
\* PersistedDatabase no file is created and the table's file keeps its
\* contents.
C13_CreateExistingRejected ==
    [][(last'.op = "ExecuteCreateTable" /\ last'.name \in DOMAIN tables) =>
        /\ last'.err # Ok
        /\ tables'[last'.name] = tables[last'.name]
        /\ DOMAIN files' = DOMAIN files
        /\ \A n \in DOMAIN files : files'[n] = files[n]]_vars

\* C13 witness: CREATE TABLE was refused for a table that has rows.
C13_Witness ==
    /\ last.op = "ExecuteCreateTable"
    /\ last.err # Ok
    /\ last.name \in DOMAIN tables
    /\ Len(tables[last.name].Rows) > 0

(***************************************************************************)
(* The parser of CREATE TABLE (parser/parser.go) over the tokens of the    *)
(* lexer. The parser's position is the index of currentToken; peekToken is *)
(* the token after it and TOKEN_EOF follows the last token.                *)
(***************************************************************************)
\* The columns of a CREATE TABLE statement in the model.
MaxColumns == 2

\* The words of the statements that are no keywords of the lexer.
Str_INTEGER == <<"I", "N", "T", "E", "G", "E", "R">>

Str_INT == <<"I", "N", "T">>

Str_TEXT == <<"T", "E", "X", "T">>

Str_VARCHAR == <<"V", "A", "R", "C", "H", "A", "R">>

Str_BOOLEAN == <<"B", "O", "O", "L", "E", "A", "N">>

Str_BOOL == <<"B", "O", "O", "L">>

Str_BLOB == <<"B", "L", "O", "B">>

Str_AND == <<"A", "N", "D">>

Token(type, literal) == [Type |-> type, Literal |-> literal]

EOFToken == Token("TOKEN_EOF", <<>>)

\* The token at position i of the lexer's output.
TokenAt(tokens, i) == IF i \in 1..Len(tokens) THEN tokens[i] ELSE EOFToken

\* Parser.peekTokenIs with currentToken at pos.
peekTokenIs(tokens, pos, t) == TokenAt(tokens, pos + 1).Type = t

\* The data type Parser.parseDataType returns for the identifier, "" with the
\* error "unknown data type".
ParserDataType(literal) ==
    CASE literal \in {Str_INTEGER, Str_INT} -> DATATYPE_INTEGER
      [] literal \in {Str_TEXT, Str_VARCHAR} -> DATATYPE_TEXT
      [] literal \in {Str_BOOLEAN, Str_BOOL} -> DATATYPE_BOOLEAN
      [] OTHER -> ""

\* The loop of Parser.parseColumnDefinitions with currentToken at pos, the
\* columns parsed so far and the number of entries of p.errors: the columns,
\* the position and the errors when the loop ends or breaks.
RECURSIVE ColumnDefinitionsLoop(_, _, _, _)
ColumnDefinitionsLoop(tokens, pos, columns, errors) ==
    IF peekTokenIs(tokens, pos, "TOKEN_RIGHT_PAREN")
            \/ peekTokenIs(tokens, pos, "TOKEN_EOF")
    THEN [columns |-> columns, pos |-> pos, errors |-> errors]
    ELSE IF ~peekTokenIs(tokens, pos, "TOKEN_IDENTIFIER")
    THEN [columns |-> columns, pos |-> pos, errors |-> errors + 1]
    ELSE IF ~peekTokenIs(tokens, pos + 1, "TOKEN_IDENTIFIER")
    THEN [columns |-> columns, pos |-> pos + 1, errors |-> errors + 1]
    ELSE IF ParserDataType(TokenAt(tokens, pos + 2).Literal) = ""
    THEN [columns |-> columns, pos |-> pos + 2, errors |-> errors]
    ELSE LET name == TokenAt(tokens, pos + 1).Literal
             dataType == ParserDataType(TokenAt(tokens, pos + 2).Literal)
             primary == peekTokenIs(tokens, pos + 2, "TOKEN_PRIMARY")
             key == primary /\ peekTokenIs(tokens, pos + 3, "TOKEN_KEY")
             unique == ~primary /\ peekTokenIs(tokens, pos + 2, "TOKEN_UNIQUE")
             pos1 == IF key THEN pos + 4
                     ELSE IF primary \/ unique THEN pos + 3 ELSE pos + 2
             errors1 == IF primary /\ ~key THEN errors + 1 ELSE errors
             columns1 == Append(columns, Column(name, dataType, key, unique))
         IN  IF peekTokenIs(tokens, pos1, "TOKEN_RIGHT_PAREN")
             THEN ColumnDefinitionsLoop(tokens, pos1, columns1, errors1)
             ELSE IF peekTokenIs(tokens, pos1, "TOKEN_COMMA")
             THEN ColumnDefinitionsLoop(tokens, pos1 + 1, columns1, errors1)
             ELSE [columns |-> columns1, pos |-> pos1, errors |-> errors1 + 1]

\* Parser.parseColumnDefinitions with currentToken at pos.
parseColumnDefinitions(tokens, pos) ==
    ColumnDefinitionsLoop(tokens, pos, <<>>, 0)

\* A statement that was not parsed.
NoStatement == [TableName |-> "", Columns |-> <<>>]

\* Parser.parseCreateStatement with currentToken at the first token: the
\* statement, the error returned and the number of entries of p.errors.
parseCreateStatement(tokens) ==
    IF ~peekTokenIs(tokens, 1, "TOKEN_TABLE")
    THEN [stmt |-> NoStatement, err |-> "expected TABLE after CREATE",
          errors |-> 1]
    ELSE IF ~peekTokenIs(tokens, 2, "TOKEN_IDENTIFIER")
    THEN [stmt |-> NoStatement, err |-> "expected table name after TABLE",
          errors |-> 1]
    ELSE IF ~peekTokenIs(tokens, 3, "TOKEN_LEFT_PAREN")
    THEN [stmt |-> NoStatement, err |-> "expected ( after table name",
          errors |-> 1]
    ELSE LET cols == parseColumnDefinitions(tokens, 4)
         IN  IF ~peekTokenIs(tokens, cols.pos, "TOKEN_RIGHT_PAREN")
             THEN [stmt |-> NoStatement,
                   err |-> "expected ) after column definitions",
                   errors |-> cols.errors + 1]
             ELSE [stmt |-> [TableName |-> TokenAt(tokens, 3).Literal,
                             Columns |-> cols.columns],
                   err |-> Ok, errors |-> cols.errors]

\* The tokens of one column definition: a name, a data type and PRIMARY KEY,
\* UNIQUE or nothing.
ColumnTokens ==
    {<<Token("TOKEN_IDENTIFIER", n), Token("TOKEN_IDENTIFIER", d)>> \o c :
        n \in {id, nm}, d \in {Str_INTEGER, Str_BLOB},
        c \in {<<>>, <<Token("TOKEN_UNIQUE", "UNIQUE")>>,
               <<Token("TOKEN_PRIMARY", "PRIMARY")>>,
               <<Token("TOKEN_PRIMARY", "PRIMARY"), Token("TOKEN_KEY", "KEY")>>}}

\* The tokens of one to n column definitions separated by commas.
RECURSIVE ColumnListTokens(_)
ColumnListTokens(n) ==
    IF n = 1 THEN ColumnTokens
    ELSE ColumnTokens
            \cup {l \o <<Token("TOKEN_COMMA", ",")>> \o c :
                    l \in ColumnListTokens(n - 1), c \in ColumnTokens}

\* The tokens of CREATE TABLE users ( ... ), with and without the closing
\* parenthesis.
CreateTokens ==
    {<<Token("TOKEN_CREATE", "CREATE"), Token("TOKEN_TABLE", "TABLE"),
       Token("TOKEN_IDENTIFIER", "users"), Token("TOKEN_LEFT_PAREN", "(")>>
        \o l \o e :
            l \in ColumnListTokens(MaxColumns),
            e \in {<<>>, <<Token("TOKEN_RIGHT_PAREN", ")")>>}}

InitParser ==
    /\ tables = EmptyMap
    /\ files = EmptyMap
    /\ loaded = NotLoaded
    /\ last = NoCall
    /\ result = Null
    /\ requests = NoRequests
    /\ lexer = NoLexer

\* Repl.executeSQL on a CREATE TABLE statement: the statement is parsed and,
\* when ParseStatement returns no error and p.errors is empty, executed
\* through PersistedDatabase.
ReplCreateTable(tokens) ==
    LET p == parseCreateStatement(tokens)
        r == ExecuteCreateTable(tables, p.stmt)
    IN  IF p.err # Ok \/ p.errors > 0
        THEN /\ last' = [NoCall EXCEPT
                            !.op = "ParseStatement",
                            !.err = IF p.err # Ok THEN p.err
                                    ELSE "parse errors"]
             /\ UNCHANGED <<tables, files, loaded, result, requests, lexer>>
        ELSE /\ tables' = r.db
             /\ files' = SaveAfter(files, r, p.stmt.TableName)
             /\ last' = [NoCall EXCEPT !.op = "ExecuteCreateTable",
                                       !.name = p.stmt.TableName,
                                       !.err = r.err]
             /\ UNCHANGED <<loaded, result, requests, lexer>>

NextParser == \E tokens \in CreateTokens : ReplCreateTable(tokens)

SpecParser == InitParser /\ [][NextParser]_vars

\* C14: every table registered in the database has pairwise distinct column
\* names.
C14_ColumnNamesDistinct ==
    \A n \in DOMAIN tables :
        \A i, j \in 1..Len(tables[n].Columns) :
            i # j => tables[n].Columns[i].Name # tables[n].Columns[j].Name

\* C15: every table registered in the database has at most one column whose
\* primary-key flag is set.
C15_OnePrimaryKeyColumn ==
    \A n \in DOMAIN tables :
        Cardinality({i \in 1..Len(tables[n].Columns) :
                        tables[n].Columns[i].PrimaryKey}) <= 1

(***************************************************************************)
(* Database.ExecuteCreateTable and Database.ExecuteInsert with value lists *)
(* of every length and kind.                                               *)
(***************************************************************************)
\* A table whose two columns have the same name, as CREATE TABLE pairs
\* (id INTEGER, id INTEGER) registers it.
PairsColumns ==
    <<Column(id, DATATYPE_INTEGER, FALSE, FALSE),
      Column(id, DATATYPE_INTEGER, FALSE, FALSE)>>

StatementCreates ==
    CreateStmts \cup {[TableName |-> "pairs", Columns |-> PairsColumns]}

\* The expressions of a value list: literals and an identifier.
ValueExprs ==
    {Literal(IntVal(1)), Literal(IntVal(2)), Literal(TextVal(<<"a">>)),
     Identifier(nm)}

\* INSERT statements with one value fewer and one value more than the tables
\* have columns.
ValueInserts ==
    {[TableName |-> n, Values |-> v] :
        n \in {"users", "notes", "pairs"},
        v \in UNION {[1..k -> ValueExprs] : k \in 1..3}}

\* Database.ExecuteCreateTable
DbExecuteCreateTable(stmt) ==
    LET r == ExecuteCreateTable(tables, stmt)
    IN  /\ tables' = r.db
        /\ last' = [NoCall EXCEPT !.op = "ExecuteCreateTable",
                                  !.name = stmt.TableName, !.err = r.err]
        /\ UNCHANGED <<files, loaded, result, requests, lexer>>

\* Database.ExecuteInsert; args is the value list of the statement.
DbExecuteInsert(stmt) ==
    LET r == ExecuteInsert(tables, stmt)
    IN  /\ tables' = r.db
        /\ last' = [NoCall EXCEPT !.op = "ExecuteInsert",
                                  !.name = stmt.TableName, !.err = r.err,
                                  !.args = stmt.Values]
        /\ result' = Null
        /\ UNCHANGED <<files, loaded, requests, lexer>>

NextStatement ==
    \/ \E stmt \in StatementCreates : DbExecuteCreateTable(stmt)
    \/ \E stmt \in ValueInserts :
            TotalRows(tables) < MaxRows /\ DbExecuteInsert(stmt)

SpecStatement == Init /\ [][NextStatement]_vars

\* C16: ExecuteInsert returns an error and leaves the table unchanged when
\* the number of values differs from the number of declared columns or when
\* a value expression is not a literal; otherwise, unless InsertRow refuses
\* the row, the table has one more row and that row holds the i-th value
\* under the i-th declared column.
C16_InsertValuesByPosition ==
    [][\A n \in DOMAIN tables :
        LET t == tables[n]
            u == tables'[n]
            values == last'.args
        IN  (last'.op = "ExecuteInsert" /\ last'.name = n) =>
                IF \/ Len(values) # Len(t.Columns)
                   \/ \E i \in 1..Len(values) : values[i].node # "Literal"
                THEN last'.err # Ok /\ u = t
                ELSE \/ last'.err # Ok /\ u = t
                     \/ /\ last'.err = Ok
                        /\ Len(u.Rows) = Len(t.Rows) + 1
                        /\ \A i \in 1..Len(t.Columns) :
                            GetValue(u.heap[u.Rows[Len(u.Rows)]],
                                     t.Columns[i].Name) = values[i].Value]_vars

(***************************************************************************)
(* Database.ExecuteSelect on two tables filled by INSERT statements.       *)
(***************************************************************************)
\* posts has no primary key and no unique column: several posts can carry
\* the same id.
PostsColumns ==
    <<Column(id, DATATYPE_INTEGER, FALSE, FALSE),
      Column(nm, DATATYPE_TEXT, FALSE, FALSE),
      Column(ok, DATATYPE_BOOLEAN, FALSE, FALSE)>>

SelectCreates ==
    {[TableName |-> "users", Columns |-> UsersColumns],
     [TableName |-> "posts", Columns |-> PostsColumns]}

SelectInserts ==
    {[TableName |-> "users", Values |-> <<Literal(k), Literal(n)>>] :
        k \in Keys, n \in Names}
        \cup {[TableName |-> "posts",
               Values |-> <<Literal(k), Literal(TextVal(<<"a">>)),
                            Literal(BoolVal(TRUE))>>] : k \in Keys}

\* The literals a WHERE clause compares a column with.
WhereLiterals ==
    {IntVal(1), TextVal(<<"a">>), BoolVal(TRUE), BoolVal(FALSE)}

\* WHERE col = literal and WHERE col > literal.
SelectWheres ==
    {BinaryExpression(Identifier(c), o, Literal(v)) :
        c \in {id, nm, ok}, o \in {"=", ">"}, v \in WhereLiterals}

\* ON A.x = B.y
JoinOn(a, x, b, y) ==
    BinaryExpression(QualifiedIdentifier(a, x), "=", QualifiedIdentifier(b, y))

\* The JOIN clauses of a SELECT on table a: the other table on id = id, on
\* nm = nm and on id = nm.
Joins(a) ==
    LET b == IF a = "users" THEN "posts" ELSE "users"
    IN  {JoinClause(b, JoinOn(a, c[1], b, c[2])) :
            c \in {<<id, id>>, <<nm, nm>>, <<id, nm>>}}

\* The projection list a.nm, b.nm of a SELECT on table a joined with b.
Projection(a, b) == <<QualifiedIdentifier(a, nm), QualifiedIdentifier(b, nm)>>

\* SELECT * FROM a [WHERE ...], SELECT * FROM a JOIN b ON ..., SELECT a.nm,
\* b.nm FROM a JOIN b ON ..., SELECT nm FROM a, SELECT nm, id FROM a, and
\* SELECT * FROM users JOIN posts ON users.id > posts.id (and with !=).
SelectStmts ==
    {[TableName |-> a, Columns |-> <<StarExpression>>, Where |-> w,
      Join |-> NilJoin] : a \in {"users", "posts"},
                          w \in SelectWheres \cup {NilExpr}}
        \cup UNION {{[TableName |-> a, Where |-> NilExpr, Join |-> j,
                      Columns |-> IF star THEN <<StarExpression>>
                                  ELSE Projection(a, j.TableName)] :
                        j \in Joins(a), star \in BOOLEAN} :
                            a \in {"users", "posts"}}
        \cup {[TableName |-> a, Columns |-> c, Where |-> NilExpr,
               Join |-> NilJoin] :
                a \in {"users", "posts"},
                c \in {<<Identifier(nm)>>, <<Identifier(nm), Identifier(id)>>}}
        \cup {[TableName |-> "users", Columns |-> <<StarExpression>>,
               Where |-> NilExpr,
               Join |-> JoinClause("posts",
                            BinaryExpression(QualifiedIdentifier("users", id), o,
                                             QualifiedIdentifier("posts", id)))] :
                o \in {">", "!="}}

\* Database.ExecuteSelect; args is the statement, result the *ResultSet it
\* returns (nil with an error).
DbExecuteSelect(stmt) ==
    LET r == ExecuteSelect(tables, stmt)
    IN  /\ result' = r.result
        /\ last' = [NoCall EXCEPT !.op = "ExecuteSelect",
                                  !.name = stmt.TableName, !.err = r.err,
                                  !.args = stmt]
        /\ UNCHANGED <<tables, files, loaded, requests, lexer>>

NextSelect ==
    \/ \E stmt \in SelectCreates : DbExecuteCreateTable(stmt)
    \/ \E stmt \in SelectInserts :
            /\ stmt.TableName \in DOMAIN tables
            /\ Len(tables[stmt.TableName].Rows) < MaxRows
            /\ DbExecuteInsert(stmt)
    \/ \E stmt \in SelectStmts : DbExecuteSelect(stmt)

SpecSelect == Init /\ [][NextSelect]_vars

\* The last call was a SELECT * without JOIN on an existing table whose WHERE
\* compares a column with a literal by the operator o.
StarSelectWhere(o) ==
    /\ last.op = "ExecuteSelect"
    /\ last.name \in DOMAIN tables
    /\ last.args.Join = NilJoin
    /\ last.args.Columns = <<StarExpression>>
    /\ last.args.Where # NilExpr
    /\ last.args.Where.Operator = o

\* The values of all declared columns of the row at rid, in declaration
\* order.
DeclaredValues(t, rid) ==
    [i \in 1..Len(t.Columns) |->
        IF t.Columns[i].Name \in DOMAIN t.heap[rid]
        THEN t.heap[rid][t.Columns[i].Name] ELSE Null]

\* C17: SELECT * FROM t WHERE col = literal returns, without an error,
\* exactly the rows of t whose value in col is the literal's value with the
\* literal's type, in insertion order, each listing the values of all
\* declared columns in declaration order.
C17_SelectWhereEquals ==
    StarSelectWhere("=") =>
        LET t == tables[last.name]
            col == last.args.Where.Left.Value
            literal == last.args.Where.Right.Value
            matching == SelectSeq(t.Rows,
                            LAMBDA r : /\ col \in DOMAIN t.heap[r]
                                       /\ t.heap[r][col].kind = literal.kind
                                       /\ t.heap[r][col].val = literal.val)
        IN  /\ last.err = Ok
            /\ result.Columns = [i \in 1..Len(t.Columns) |-> t.Columns[i].Name]
            /\ result.Rows =
                    [i \in 1..Len(matching) |-> DeclaredValues(t, matching[i])]

\* A SELECT with = that returned one of two rows.
C17_Witness ==
    /\ StarSelectWhere("=")
    /\ last.err = Ok
    /\ Len(tables[last.name].Rows) = 2
    /\ Len(result.Rows) = 1

\* C18: SELECT * FROM t WHERE col > literal returns, without an error,
\* exactly the rows whose value in col is strictly greater than the literal
\* with both Integer or both Text, in insertion order; no row whose value
\* differs in type from the literal or is a Boolean is returned, so the
\* result is empty when all rows are such.
C18_SelectWhereGreater ==
    StarSelectWhere(">") =>
        LET t == tables[last.name]
            col == last.args.Where.Left.Value
            literal == last.args.Where.Right.Value
            Greater(v) ==
                \/ v.kind = "int" /\ literal.kind = "int" /\ v.val > literal.val
                \/ /\ v.kind = "text" /\ literal.kind = "text"
                   /\ StrLess(literal.val, v.val)
            Unordered(v) == v.kind # literal.kind \/ v.kind = "bool"
            matching == SelectSeq(t.Rows,
                            LAMBDA r : /\ col \in DOMAIN t.heap[r]
                                       /\ Greater(t.heap[r][col]))
        IN  /\ last.err = Ok
            /\ result.Rows =
                    [i \in 1..Len(matching) |-> DeclaredValues(t, matching[i])]
            /\ (\A i \in 1..Len(t.Rows) :
                    Unordered(GetValue(t.heap[t.Rows[i]], col)))
                        => result.Rows = <<>>

\* A SELECT with > that returned one of two rows.
C18_Witness ==
    /\ StarSelectWhere(">")
    /\ last.err = Ok
    /\ Len(tables[last.name].Rows) = 2
    /\ Len(result.Rows) = 1

\* The last call was a SELECT with a JOIN ... ON x = y and without WHERE,
\* both tables exist, and the select list is a star (star = TRUE) or a list
\* of columns.
JoinSelect(star) ==
    /\ last.op = "ExecuteSelect"
    /\ last.name \in DOMAIN tables
    /\ last.args.Join # NilJoin
    /\ last.args.Join.TableName \in DOMAIN tables
    /\ last.args.Join.On.Operator = "="
    /\ last.args.Where = NilExpr
    /\ (last.args.Columns = <<StarExpression>>) = star

\* The pairs <<i, j>> of a position in A's rows and a position in B's rows
\* whose values under x and y are equal.
EqualPairs(A, x, B, y) ==
    {p \in (1..Len(A.Rows)) \X (1..Len(B.Rows)) :
        GetValue(A.heap[A.Rows[p[1]]], x) = GetValue(B.heap[B.Rows[p[2]]], y)}

\* The sum of f[1] .. f[n].
RECURSIVE SumTo(_, _)
SumTo(f, n) == IF n = 0 THEN 0 ELSE f[n] + SumTo(f, n - 1)

\* C19: SELECT * FROM A JOIN B ON A.x = B.y returns, without an error, one
\* output row (a's values, then b's values) for each pair of a row a of A
\* and a row b of B with equal values a.x and b.y, ordered by a's position
\* in A and then b's position in B; the number of output rows is the sum
\* over the rows of A of their matching rows of B.
C19_JoinPairsInOrder ==
    JoinSelect(TRUE) =>
        LET A == tables[last.name]
            B == tables[last.args.Join.TableName]
            x == last.args.Join.On.Left.Column
            y == last.args.Join.On.Right.Column
            pairs == EqualPairs(A, x, B, y)
            Position(p) ==
                Cardinality({q \in pairs :
                    q[1] < p[1] \/ (q[1] = p[1] /\ q[2] <= p[2])})
            matches == [i \in 1..Len(A.Rows) |->
                            Cardinality({p \in pairs : p[1] = i})]
        IN  /\ last.err = Ok
            /\ Len(result.Rows) = SumTo(matches, Len(A.Rows))
            /\ \A p \in pairs :
                    result.Rows[Position(p)] =
                        DeclaredValues(A, A.Rows[p[1]])
                            \o DeclaredValues(B, B.Rows[p[2]])

\* A JOIN of two tables of two rows each in which one row of A matches both
\* rows of B and the other matches none.
C19_Witness ==
    /\ JoinSelect(TRUE)
    /\ last.err = Ok
    /\ Len(tables[last.name].Rows) = 2
    /\ Len(tables[last.args.Join.TableName].Rows) = 2
    /\ EqualPairs(tables[last.name], last.args.Join.On.Left.Column,
                  tables[last.args.Join.TableName],
                  last.args.Join.On.Right.Column)
            \in {{<<1, 1>>, <<1, 2>>}, {<<2, 1>>, <<2, 2>>}}
    /\ Len(result.Rows) = 2

\* C20: a SELECT with a JOIN and an explicit projection list returns,
\* without an error, a result set whose columns are the listed columns in
\* the listed order, each row holding only the values under those columns.
C20_JoinProjection ==
    JoinSelect(FALSE) =>
        LET listed == [i \in 1..Len(last.args.Columns) |->
                            last.args.Columns[i].Column]
        IN  /\ last.err = Ok
            /\ result.Columns = listed
            /\ \A k \in 1..Len(result.Rows) :
                    Len(result.Rows[k]) = Len(listed)

\* The names of the declared columns of a table, in declaration order.
DeclaredNames(t) == [i \in 1..Len(t.Columns) |-> t.Columns[i].Name]

\* C21: the result set of a SELECT * names the source table's columns in
\* declaration order without a JOIN and the left table's columns followed by
\* the right table's with one; every row of every result set has as many
\* values as the result set has column names.
C21_StarColumns ==
    (last.op = "ExecuteSelect" /\ last.err = Ok) =>
        /\ (last.args.Columns = <<StarExpression>> /\ last.args.Join = NilJoin)
                => result.Columns = DeclaredNames(tables[last.name])
        /\ (last.args.Columns = <<StarExpression>> /\ last.args.Join # NilJoin)
                => result.Columns =
                        DeclaredNames(tables[last.name])
                            \o DeclaredNames(tables[last.args.Join.TableName])
        /\ \A k \in 1..Len(result.Rows) :
                Len(result.Rows[k]) = Len(result.Columns)

\* A SELECT * with a JOIN that returned a row.
C21_Witness ==
    /\ last.op = "ExecuteSelect"
    /\ last.err = Ok
    /\ last.args.Columns = <<StarExpression>>
    /\ last.args.Join # NilJoin
    /\ Len(result.Rows) > 0

\* C22: a SELECT whose JOIN ... ON condition uses an operator other than =
\* returns an error and no result set.
C22_NonEqualityJoinRejected ==
    (/\ last.op = "ExecuteSelect"
     /\ last.args.Join # NilJoin
     /\ last.args.Join.On.Operator # "=") =>
        last.err # Ok /\ result = Null

\* A SELECT with JOIN ... ON users.id > posts.id on two filled tables.
C22_Witness ==
    /\ last.op = "ExecuteSelect"
    /\ last.args.Join # NilJoin
    /\ last.args.Join.On.Operator = ">"
    /\ DOMAIN tables = {"users", "posts"}
    /\ Len(tables["users"].Rows) > 0
    /\ Len(tables["posts"].Rows) > 0
    /\ last.err # Ok

(***************************************************************************)
(* The lexer (the second half of parser/parser.go).  A string is a         *)
(* sequence of one-character strings; the byte 0 is the character NUL.     *)
(***************************************************************************)
\* The calls of NextToken the model makes after the lexer has passed the end
\* of its input.
MaxExtraCalls == 2

NUL == "NUL"

LowerChars ==
    <<"a", "b", "c", "d", "e", "f", "g", "h", "i", "j", "k", "l", "m",
      "n", "o", "p", "q", "r", "s", "t", "u", "v", "w", "x", "y", "z">>

UpperChars ==
    <<"A", "B", "C", "D", "E", "F", "G", "H", "I", "J", "K", "L", "M",
      "N", "O", "P", "Q", "R", "S", "T", "U", "V", "W", "X", "Y", "Z">>

\* isLetter on the ASCII characters.
isLetter(ch) ==
    \/ \E i \in 1..26 : ch = LowerChars[i] \/ ch = UpperChars[i]
    \/ ch = "_"

\* isDigit
isDigit(ch) == \E i \in 1..10 : ch = DigitChars[i]

\* strings.ToUpper
ToUpper(s) ==
    [i \in 1..Len(s) |->
        IF \E k \in 1..26 : s[i] = LowerChars[k]
        THEN UpperChars[CHOOSE k \in 1..26 : s[i] = LowerChars[k]]
        ELSE s[i]]

\* The keywords of Lexer.lookupIdent and the token type of each.
Keywords ==
    <<<<<<"S", "E", "L", "E", "C", "T">>, "TOKEN_SELECT">>,
      <<<<"I", "N", "S", "E", "R", "T">>, "TOKEN_INSERT">>,
      <<<<"U", "P", "D", "A", "T", "E">>, "TOKEN_UPDATE">>,
      <<<<"D", "E", "L", "E", "T", "E">>, "TOKEN_DELETE">>,
      <<<<"C", "R", "E", "A", "T", "E">>, "TOKEN_CREATE">>,
      <<<<"T", "A", "B", "L", "E">>, "TOKEN_TABLE">>,
      <<<<"F", "R", "O", "M">>, "TOKEN_FROM">>,
      <<<<"W", "H", "E", "R", "E">>, "TOKEN_WHERE">>,
      <<<<"V", "A", "L", "U", "E", "S">>, "TOKEN_VALUES">>,
      <<<<"S", "E", "T">>, "TOKEN_SET">>,
      <<<<"I", "N", "T", "O">>, "TOKEN_INTO">>,
      <<<<"J", "O", "I", "N">>, "TOKEN_JOIN">>,
      <<<<"O", "N">>, "TOKEN_ON">>,
      <<<<"P", "R", "I", "M", "A", "R", "Y">>, "TOKEN_PRIMARY">>,
      <<<<"K", "E", "Y">>, "TOKEN_KEY">>,
      <<<<"U", "N", "I", "Q", "U", "E">>, "TOKEN_UNIQUE">>,
      <<<<"T", "R", "U", "E">>, "TOKEN_TRUE">>,
      <<<<"F", "A", "L", "S", "E">>, "TOKEN_FALSE">>>>

\* Lexer.lookupIdent
lookupIdent(ident) ==
    LET upper == ToUpper(ident)
        hits == {k \in 1..Len(Keywords) : Keywords[k][1] = upper}
    IN  IF hits = {} THEN "TOKEN_IDENTIFIER"
        ELSE Keywords[CHOOSE k \in hits : TRUE][2]

\* Lexer.readChar
readChar(l) ==
    [l EXCEPT !.current = IF l.pos >= Len(l.input) THEN NUL
                          ELSE l.input[l.pos + 1],
              !.pos = l.pos + 1]

\* Lexer.peekChar
peekChar(l) == IF l.pos >= Len(l.input) THEN NUL ELSE l.input[l.pos + 1]

\* NewLexer
NewLexer(input) == readChar([input |-> input, pos |-> 0, current |-> NUL])

\* Lexer.skipWhitespace
RECURSIVE skipWhitespace(_)
skipWhitespace(l) ==
    IF IsSpace(l.current) THEN skipWhitespace(readChar(l)) ELSE l

\* The loop of Lexer.readIdentifier: the lexer after it.
RECURSIVE IdentifierLoop(_)
IdentifierLoop(l) ==
    IF isLetter(l.current) \/ isDigit(l.current) \/ l.current = "_"
    THEN IdentifierLoop(readChar(l)) ELSE l

\* The loop of Lexer.readNumber: the lexer after it.
RECURSIVE NumberLoop(_)
NumberLoop(l) == IF isDigit(l.current) THEN NumberLoop(readChar(l)) ELSE l

\* The loop of Lexer.readString: the lexer after it.
RECURSIVE StringLoop(_)
StringLoop(l) ==
    IF l.current # "'" /\ l.current # NUL THEN StringLoop(readChar(l)) ELSE l

\* l.input[from : to] with Go's indices.
Slice(input, from, to) == SubSeq(input, from + 1, to)

\* Lexer.readIdentifier: the identifier and the lexer after it.
readIdentifier(l) ==
    LET e == IdentifierLoop(l)
    IN  [literal |-> Slice(l.input, l.pos - 1, e.pos - 1), l |-> e]

\* Lexer.readNumber
readNumber(l) ==
    LET e == NumberLoop(l)
    IN  [literal |-> Slice(l.input, l.pos - 1, e.pos - 1), l |-> e]

\* Lexer.readString
readString(l) ==
    LET s == readChar(l)
        e == StringLoop(s)
    IN  [literal |-> Slice(l.input, s.pos - 1, e.pos - 1),
         l |-> IF e.current = "'" THEN readChar(e) ELSE e]

\* Lexer.NextToken: the token and the lexer after the call.
NextToken(l0) ==
    LET l == skipWhitespace(l0)
        c == l.current
        One(type) == [tok |-> [Type |-> type, Literal |-> <<c>>],
                      l |-> readChar(l)]
        Two(type, otherwise) ==
            IF peekChar(l) = "="
            THEN [tok |-> [Type |-> type, Literal |-> <<c, "=">>],
                  l |-> readChar(readChar(l))]
            ELSE One(otherwise)
    IN  CASE c = "=" -> One("TOKEN_EQUALS")
          [] c = "!" -> Two("TOKEN_NOT_EQUALS", "TOKEN_IDENTIFIER")
          [] c = ">" -> Two("TOKEN_GREATER_EQUALS", "TOKEN_GREATER")
          [] c = "<" -> Two("TOKEN_LESS_EQUALS", "TOKEN_LESS")
          [] c = "," -> One("TOKEN_COMMA")
          [] c = ";" -> One("TOKEN_SEMICOLON")
          [] c = "(" -> One("TOKEN_LEFT_PAREN")
          [] c = ")" -> One("TOKEN_RIGHT_PAREN")
          [] c = "*" -> One("TOKEN_STAR")
          [] c = "." -> One("TOKEN_DOT")
          [] c = NUL -> [tok |-> [Type |-> "TOKEN_EOF", Literal |-> <<>>],
                         l |-> readChar(l)]
          [] OTHER ->
                LET ident == readIdentifier(l)
                    number == readNumber(l)
                    string == readString(l)
                IN  IF isLetter(c)
                    THEN [tok |-> [Type |-> lookupIdent(ident.literal),
                                   Literal |-> ident.literal],
                          l |-> ident.l]
                    ELSE IF isDigit(c)
                    THEN [tok |-> [Type |-> "TOKEN_NUMBER",
                                   Literal |-> number.literal],
                          l |-> number.l]
                    ELSE IF c = "'"
                    THEN [tok |-> [Type |-> "TOKEN_STRING",
                                   Literal |-> string.literal],
                          l |-> string.l]
                    ELSE One("TOKEN_IDENTIFIER")

\* The characters of the inputs of the lexer in the model: a letter, a
\* digit, the quote, a space, two operator characters, a character the
\* lexer does not know and the byte 0.
LexerAlphabet == {"a", "1", "'", " ", "!", "=", "#", NUL}

\* Every input up to MaxLen + 1 characters.
LexerInputs == UNION {[1..n -> LexerAlphabet] : n \in 0..(MaxLen + 1)}

\* The token the last call of NextToken returned is TOKEN_EOF.
AtEOF == last.op = "NextToken" /\ last.args.Type = "TOKEN_EOF"

\* NewLexer(input)
LexerNew(input) ==
    /\ lexer = NoLexer
    /\ lexer' = NewLexer(input)
    /\ last' = [NoCall EXCEPT !.op = "NewLexer"]
    /\ UNCHANGED <<tables, files, loaded, result, requests>>

\* Lexer.NextToken; args is the token returned.
LexerNextToken ==
    /\ lexer # NoLexer
    /\ lexer.pos <= Len(lexer.input) + MaxExtraCalls
    /\ lexer' = NextToken(lexer).l
    /\ last' = [NoCall EXCEPT !.op = "NextToken",
                              !.args = NextToken(lexer).tok]
    /\ UNCHANGED <<tables, files, loaded, result, requests>>

NextLexer ==
    \/ \E input \in LexerInputs : LexerNew(input)
    \/ LexerNextToken

SpecLexer == Init /\ [][NextLexer]_vars

\* C26: every call of NextToken that returns a token other than TOKEN_EOF
\* consumes at least one character of the input, and every call after a call
\* that returned TOKEN_EOF returns TOKEN_EOF again.
C26_LexerReachesEOF ==
    [][last'.op = "NextToken" =>
            /\ last'.args.Type # "TOKEN_EOF" =>
                    /\ lexer'.pos > lexer.pos
                    /\ lexer.pos <= Len(lexer.input)
            /\ AtEOF => last'.args.Type = "TOKEN_EOF"]_vars

(***************************************************************************)
(* The parser of expressions and of the INSERT, SELECT, UPDATE and DELETE  *)
(* statements (parser/parser.go 132-416).  pos is the position of          *)
(* currentToken; errors counts the entries expectPeek adds to p.errors.    *)
(***************************************************************************)
OperatorTypes ==
    {"TOKEN_EQUALS", "TOKEN_NOT_EQUALS", "TOKEN_GREATER", "TOKEN_LESS",
     "TOKEN_GREATER_EQUALS", "TOKEN_LESS_EQUALS"}

\* The operator an operator token stands for (its Literal, parser.go 361).
OperatorOf(type) ==
    CASE type = "TOKEN_EQUALS" -> "="
      [] type = "TOKEN_NOT_EQUALS" -> "!="
      [] type = "TOKEN_GREATER" -> ">"
      [] type = "TOKEN_LESS" -> "<"
      [] type = "TOKEN_GREATER_EQUALS" -> ">="
      [] OTHER -> "<="

\* F(v), with v computed once: the result of a call that the caller keeps
\* in a local variable.
With(v, F(_)) == CHOOSE r \in {F(x) : x \in {v}} : TRUE

\* Parser.parsePrimaryExpression
parsePrimaryExpression(tokens, pos) ==
    LET peek == TokenAt(tokens, pos + 1)
        Parsed(e, p) == [expr |-> e, err |-> Ok, pos |-> p, errors |-> 0]
    IN  CASE peek.Type = "TOKEN_IDENTIFIER" ->
                IF peekTokenIs(tokens, pos + 1, "TOKEN_DOT")
                THEN IF peekTokenIs(tokens, pos + 2, "TOKEN_IDENTIFIER")
                     THEN Parsed(QualifiedIdentifier(
                                    peek.Literal,
                                    TokenAt(tokens, pos + 3).Literal), pos + 3)
                     ELSE [expr |-> NilExpr,
                           err |-> "expected identifier after dot",
                           pos |-> pos + 2, errors |-> 1]
                ELSE Parsed(Identifier(peek.Literal), pos + 1)
          [] peek.Type = "TOKEN_STRING" ->
                Parsed(Literal(TextVal(peek.Literal)), pos + 1)
          [] peek.Type = "TOKEN_NUMBER" ->
                IF Atoi(peek.Literal).err # Ok
                THEN [expr |-> NilExpr, err |-> Atoi(peek.Literal).err,
                      pos |-> pos + 1, errors |-> 0]
                ELSE Parsed(Literal(Atoi(peek.Literal).value), pos + 1)
          [] peek.Type \in {"TOKEN_TRUE", "TOKEN_FALSE"} ->
                Parsed(Literal(BoolVal(peek.Type = "TOKEN_TRUE")), pos + 1)
          [] OTHER ->
                [expr |-> NilExpr, err |-> "unexpected token in expression",
                 pos |-> pos, errors |-> 0]

\* Parser.parseExpression
parseExpression(tokens, pos) ==
    With(parsePrimaryExpression(tokens, pos), LAMBDA left :
        IF left.err # Ok THEN left
        ELSE IF TokenAt(tokens, left.pos + 1).Type \in OperatorTypes
        THEN With(parsePrimaryExpression(tokens, left.pos + 1), LAMBDA right :
                IF right.err # Ok
                THEN [right EXCEPT !.errors = left.errors + right.errors]
                ELSE [expr |-> BinaryExpression(
                                left.expr,
                                OperatorOf(TokenAt(tokens, left.pos + 1).Type),
                                right.expr),
                      err |-> Ok, pos |-> right.pos,
                      errors |-> left.errors + right.errors])
        ELSE left)

\* The loop of Parser.parseExpressionList.
RECURSIVE ExpressionListLoop(_, _, _, _, _)
ExpressionListLoop(tokens, pos, endToken, expressions, errors) ==
    IF peekTokenIs(tokens, pos, endToken) \/ peekTokenIs(tokens, pos, "TOKEN_EOF")
    THEN [exprs |-> expressions, pos |-> pos, errors |-> errors]
    ELSE With(parseExpression(tokens, pos), LAMBDA e :
            IF e.err # Ok
            THEN [exprs |-> expressions, pos |-> e.pos,
                  errors |-> errors + e.errors]
            ELSE IF \/ peekTokenIs(tokens, e.pos, endToken)
                    \/ peekTokenIs(tokens, e.pos, "TOKEN_COMMA")
            THEN ExpressionListLoop(
                    tokens,
                    IF peekTokenIs(tokens, e.pos, endToken) THEN e.pos
                    ELSE e.pos + 1,
                    endToken, Append(expressions, e.expr), errors + e.errors)
            ELSE [exprs |-> Append(expressions, e.expr), pos |-> e.pos,
                  errors |-> errors + e.errors + 1])

\* Parser.parseExpressionList
parseExpressionList(tokens, pos, endToken) ==
    ExpressionListLoop(tokens, pos, endToken, <<>>, 0)

\* What a parse function returns: the statement and its kind (nil with an
\* error), the error, and the number of entries of p.errors.
ParseResult(kind, stmt, errors) ==
    [kind |-> kind, stmt |-> stmt, err |-> Ok, errors |-> errors]

ParseError(err, errors) ==
    [kind |-> "nil", stmt |-> NoStatement, err |-> err, errors |-> errors]

\* The optional WHERE clause of parseSelectStatement, parseUpdateStatement
\* and parseDeleteStatement with currentToken at pos: the expression, nil
\* without the clause.
parseWhere(tokens, pos) ==
    IF peekTokenIs(tokens, pos, "TOKEN_WHERE")
    THEN parseExpression(tokens, pos + 1)
    ELSE [expr |-> NilExpr, err |-> Ok, pos |-> pos, errors |-> 0]

\* Parser.parseInsertStatement
parseInsertStatement(tokens) ==
    IF ~peekTokenIs(tokens, 1, "TOKEN_INTO")
    THEN ParseError("expected INTO after INSERT", 1)
    ELSE IF ~peekTokenIs(tokens, 2, "TOKEN_IDENTIFIER")
    THEN ParseError("expected table name after INTO", 1)
    ELSE IF ~peekTokenIs(tokens, 3, "TOKEN_VALUES")
    THEN ParseError("expected VALUES after table name", 1)
    ELSE IF ~peekTokenIs(tokens, 4, "TOKEN_LEFT_PAREN")
    THEN ParseError("expected ( after VALUES", 1)
    ELSE With(parseExpressionList(tokens, 5, "TOKEN_RIGHT_PAREN"), LAMBDA vals :
            IF ~peekTokenIs(tokens, vals.pos, "TOKEN_RIGHT_PAREN")
            THEN ParseError("expected ) after values", vals.errors + 1)
            ELSE ParseResult("InsertStatement",
                             [TableName |-> TokenAt(tokens, 3).Literal,
                              Values |-> vals.exprs], vals.errors))

\* Parser.parseSelectColumns
parseSelectColumns(tokens, pos) ==
    IF peekTokenIs(tokens, pos, "TOKEN_STAR")
    THEN [exprs |-> <<StarExpression>>, pos |-> pos + 1, errors |-> 0]
    ELSE parseExpressionList(tokens, pos, "TOKEN_FROM")

\* Parser.parseJoinClause with currentToken before JOIN.
parseJoinClause(tokens, pos) ==
    IF ~peekTokenIs(tokens, pos + 1, "TOKEN_IDENTIFIER")
    THEN [join |-> NilJoin, err |-> "expected table name after JOIN",
          pos |-> pos + 1, errors |-> 1]
    ELSE IF ~peekTokenIs(tokens, pos + 2, "TOKEN_ON")
    THEN [join |-> NilJoin, err |-> "expected ON after JOIN table",
          pos |-> pos + 2, errors |-> 1]
    ELSE With(parseExpression(tokens, pos + 3), LAMBDA e :
            IF e.err # Ok
            THEN [join |-> NilJoin, err |-> e.err, pos |-> e.pos,
                  errors |-> e.errors]
            ELSE IF e.expr.node # "BinaryExpression"
            THEN [join |-> NilJoin,
                  err |-> "expected binary expression in ON clause",
                  pos |-> e.pos, errors |-> e.errors]
            ELSE [join |-> JoinClause(TokenAt(tokens, pos + 2).Literal,
                                      e.expr),
                  err |-> Ok, pos |-> e.pos, errors |-> e.errors])

\* Parser.parseSelectStatement
parseSelectStatement(tokens) ==
    With(parseSelectColumns(tokens, 1), LAMBDA cols :
        IF ~peekTokenIs(tokens, cols.pos, "TOKEN_FROM")
        THEN ParseError("expected FROM after SELECT columns", cols.errors + 1)
        ELSE IF ~peekTokenIs(tokens, cols.pos + 1, "TOKEN_IDENTIFIER")
        THEN ParseError("expected table name after FROM", cols.errors + 1)
        ELSE With(IF peekTokenIs(tokens, cols.pos + 2, "TOKEN_JOIN")
                  THEN parseJoinClause(tokens, cols.pos + 2)
                  ELSE [join |-> NilJoin, err |-> Ok, pos |-> cols.pos + 2,
                        errors |-> 0],
                  LAMBDA join :
            IF join.err # Ok
            THEN ParseError(join.err, cols.errors + join.errors)
            ELSE With(parseWhere(tokens, join.pos), LAMBDA where :
                    IF where.err # Ok
                    THEN ParseError(where.err,
                                    cols.errors + join.errors + where.errors)
                    ELSE ParseResult(
                            "SelectStatement",
                            [TableName |-> TokenAt(tokens, cols.pos + 2).Literal,
                             Columns |-> cols.exprs, Where |-> where.expr,
                             Join |-> join.join],
                            cols.errors + join.errors + where.errors))))

\* The loop of Parser.parseSetClause; set maps a column name to the
\* expression stored last for it.
RECURSIVE SetClauseLoop(_, _, _, _)
SetClauseLoop(tokens, pos, set, errors) ==
    IF peekTokenIs(tokens, pos, "TOKEN_WHERE") \/ peekTokenIs(tokens, pos, "TOKEN_EOF")
    THEN [set |-> set, pos |-> pos, errors |-> errors]
    ELSE IF ~peekTokenIs(tokens, pos, "TOKEN_IDENTIFIER")
    THEN [set |-> set, pos |-> pos, errors |-> errors + 1]
    ELSE IF ~peekTokenIs(tokens, pos + 1, "TOKEN_EQUALS")
    THEN [set |-> set, pos |-> pos + 1, errors |-> errors + 1]
    ELSE With(parseExpression(tokens, pos + 2), LAMBDA e :
            IF e.err # Ok
            THEN [set |-> set, pos |-> e.pos, errors |-> errors + e.errors]
            ELSE With([c \in (DOMAIN set) \cup {TokenAt(tokens, pos + 1).Literal}
                        |-> IF c = TokenAt(tokens, pos + 1).Literal THEN e.expr
                            ELSE set[c]],
                      LAMBDA set1 :
                    IF \/ peekTokenIs(tokens, e.pos, "TOKEN_WHERE")
                       \/ peekTokenIs(tokens, e.pos, "TOKEN_COMMA")
                    THEN SetClauseLoop(
                            tokens,
                            IF peekTokenIs(tokens, e.pos, "TOKEN_WHERE")
                            THEN e.pos ELSE e.pos + 1,
                            set1, errors + e.errors)
                    ELSE [set |-> set1, pos |-> e.pos,
                          errors |-> errors + e.errors + 1]))

\* Parser.parseSetClause
parseSetClause(tokens, pos) == SetClauseLoop(tokens, pos, EmptyMap, 0)

\* Parser.parseUpdateStatement
parseUpdateStatement(tokens) ==
    IF ~peekTokenIs(tokens, 1, "TOKEN_IDENTIFIER")
    THEN ParseError("expected table name after UPDATE", 1)
    ELSE IF ~peekTokenIs(tokens, 2, "TOKEN_SET")
    THEN ParseError("expected SET after table name", 1)
    ELSE With(parseSetClause(tokens, 3), LAMBDA set :
            With(parseWhere(tokens, set.pos), LAMBDA where :
                IF where.err # Ok
                THEN ParseError(where.err, set.errors + where.errors)
                ELSE ParseResult("UpdateStatement",
                                 [TableName |-> TokenAt(tokens, 2).Literal,
                                  Set |-> set.set, Where |-> where.expr],
                                 set.errors + where.errors)))

\* Parser.parseDeleteStatement
parseDeleteStatement(tokens) ==
    IF ~peekTokenIs(tokens, 1, "TOKEN_FROM")
    THEN ParseError("expected FROM after DELETE", 1)
    ELSE IF ~peekTokenIs(tokens, 2, "TOKEN_IDENTIFIER")
    THEN ParseError("expected table name after FROM", 1)
    ELSE With(parseWhere(tokens, 3), LAMBDA where :
            IF where.err # Ok THEN ParseError(where.err, where.errors)
            ELSE ParseResult("DeleteStatement",
                             [TableName |-> TokenAt(tokens, 3).Literal,
                              Where |-> where.expr], where.errors))

\* Parser.ParseStatement on the tokens of the lexer.
ParseStatement(tokens) ==
    CASE TokenAt(tokens, 1).Type = "TOKEN_SELECT" -> parseSelectStatement(tokens)
      [] TokenAt(tokens, 1).Type = "TOKEN_INSERT" -> parseInsertStatement(tokens)
      [] TokenAt(tokens, 1).Type = "TOKEN_UPDATE" -> parseUpdateStatement(tokens)
      [] TokenAt(tokens, 1).Type = "TOKEN_DELETE" -> parseDeleteStatement(tokens)
      [] TokenAt(tokens, 1).Type = "TOKEN_CREATE" ->
            With(parseCreateStatement(tokens), LAMBDA create :
                IF create.err # Ok THEN ParseError(create.err, create.errors)
                ELSE ParseResult("CreateTableStatement", create.stmt,
                                 create.errors))
      [] OTHER -> ParseError("unexpected token", 0)

\* The tokens NextToken returns from the lexer l up to TOKEN_EOF.
RECURSIVE TokensFrom(_)
TokensFrom(l) ==
    With(NextToken(l), LAMBDA next :
        IF next.tok.Type = "TOKEN_EOF" THEN <<>>
        ELSE <<next.tok>> \o TokensFrom(next.l))

\* NewParser(NewLexer(input)).ParseStatement()
ParseSQL(input) == ParseStatement(TokensFrom(NewLexer(input)))

(***************************************************************************)
(* Repl.executeSQL: the input is split at semicolons and every statement   *)
(* is lexed, parsed and executed through PersistedDatabase.                *)
(***************************************************************************)
\* CREATE TABLE users (id INTEGER PRIMARY KEY, nm TEXT)
SqlCreateUsers ==
    <<"C", "R", "E", "A", "T", "E", " ", "T", "A", "B", "L", "E", " ", "u",
      "s", "e", "r", "s", " ", "(", "i", "d", " ", "I", "N", "T", "E", "G",
      "E", "R", " ", "P", "R", "I", "M", "A", "R", "Y", " ", "K", "E", "Y",
      ",", " ", "n", "m", " ", "T", "E", "X", "T", ")">>

\* INSERT INTO users VALUES (1, 'a')
SqlInsertOne ==
    <<"I", "N", "S", "E", "R", "T", " ", "I", "N", "T", "O", " ", "u", "s",
      "e", "r", "s", " ", "V", "A", "L", "U", "E", "S", " ", "(", "1", ",",
      " ", "'", "a", "'", ")">>

\* INSERT INTO users VALUES (2, 'b'); SELECT * FROM users
SqlInsertTwo ==
    <<"I", "N", "S", "E", "R", "T", " ", "I", "N", "T", "O", " ", "u", "s",
      "e", "r", "s", " ", "V", "A", "L", "U", "E", "S", " ", "(", "2", ",",
      " ", "'", "b", "'", ")", ";", " ", "S", "E", "L", "E", "C", "T", " ",
      "*", " ", "F", "R", "O", "M", " ", "u", "s", "e", "r", "s">>

\* SELECT * FROM users WHERE id = 1
SqlSelect ==
    <<"S", "E", "L", "E", "C", "T", " ", "*", " ", "F", "R", "O", "M", " ",
      "u", "s", "e", "r", "s", " ", "W", "H", "E", "R", "E", " ", "i", "d",
      " ", "=", " ", "1">>

\* UPDATE users SET nm = 'b' WHERE id = 1
SqlUpdate ==
    <<"U", "P", "D", "A", "T", "E", " ", "u", "s", "e", "r", "s", " ", "S",
      "E", "T", " ", "n", "m", " ", "=", " ", "'", "b", "'", " ", "W", "H",
      "E", "R", "E", " ", "i", "d", " ", "=", " ", "1">>

\* UPDATE users SET nm = 'b'
SqlUpdateAll ==
    <<"U", "P", "D", "A", "T", "E", " ", "u", "s", "e", "r", "s", " ", "S",
      "E", "T", " ", "n", "m", " ", "=", " ", "'", "b", "'">>

\* DELETE FROM users WHERE id = 1
SqlDelete ==
    <<"D", "E", "L", "E", "T", "E", " ", "F", "R", "O", "M", " ", "u", "s",
      "e", "r", "s", " ", "W", "H", "E", "R", "E", " ", "i", "d", " ", "=",
      " ", "1">>

\* SELECT * FROM users WHERE id = 1 AND nm = 'b'
SqlSelectAnd ==
    <<"S", "E", "L", "E", "C", "T", " ", "*", " ", "F", "R", "O", "M", " ",
      "u", "s", "e", "r", "s", " ", "W", "H", "E", "R", "E", " ", "i", "d",
      " ", "=", " ", "1", " ", "A", "N", "D", " ", "n", "m", " ", "=", " ",
      "'", "b", "'">>

\* UPDATE users SET nm = 'b' WHERE id = 2 AND nm = 'a'
SqlUpdateAnd ==
    <<"U", "P", "D", "A", "T", "E", " ", "u", "s", "e", "r", "s", " ", "S",
      "E", "T", " ", "n", "m", " ", "=", " ", "'", "b", "'", " ", "W", "H",
      "E", "R", "E", " ", "i", "d", " ", "=", " ", "2", " ", "A", "N", "D",
      " ", "n", "m", " ", "=", " ", "'", "a", "'">>

\* DELETE FROM users WHERE id = 1 AND nm = 'b'
SqlDeleteAnd ==
    <<"D", "E", "L", "E", "T", "E", " ", "F", "R", "O", "M", " ", "u", "s",
      "e", "r", "s", " ", "W", "H", "E", "R", "E", " ", "i", "d", " ", "=",
      " ", "1", " ", "A", "N", "D", " ", "n", "m", " ", "=", " ", "'", "b",
      "'">>

\* CREATE TABLE notes (id BLOB)
SqlCreateBlob ==
    <<"C", "R", "E", "A", "T", "E", " ", "T", "A", "B", "L", "E", " ", "n",
      "o", "t", "e", "s", " ", "(", "i", "d", " ", "B", "L", "O", "B", ")">>

\* CREATE TABLE notes (id INTEGER PRIMARY)
SqlCreatePrimary ==
    <<"C", "R", "E", "A", "T", "E", " ", "T", "A", "B", "L", "E", " ", "n",
      "o", "t", "e", "s", " ", "(", "i", "d", " ", "I", "N", "T", "E", "G",
      "E", "R", " ", "P", "R", "I", "M", "A", "R", "Y", ")">>

\* INSERT INTO users VALUES (2 'b')
SqlInsertNoComma ==
    <<"I", "N", "S", "E", "R", "T", " ", "I", "N", "T", "O", " ", "u", "s",
      "e", "r", "s", " ", "V", "A", "L", "U", "E", "S", " ", "(", "2", " ",
      "'", "b", "'", ")">>

\* INSERT INTO users VALUES (2, )
SqlInsertComma ==
    <<"I", "N", "S", "E", "R", "T", " ", "I", "N", "T", "O", " ", "u", "s",
      "e", "r", "s", " ", "V", "A", "L", "U", "E", "S", " ", "(", "2", ",",
      " ", ")">>

\* UPDATE users SET nm 'b' WHERE id = 1
SqlUpdateNoEquals ==
    <<"U", "P", "D", "A", "T", "E", " ", "u", "s", "e", "r", "s", " ", "S",
      "E", "T", " ", "n", "m", " ", "'", "b", "'", " ", "W", "H", "E", "R",
      "E", " ", "i", "d", " ", "=", " ", "1">>

\* SELECT * FROM users nm
SqlSelectExtra ==
    <<"S", "E", "L", "E", "C", "T", " ", "*", " ", "F", "R", "O", "M", " ",
      "u", "s", "e", "r", "s", " ", "n", "m">>

\* DELETE FROM users WHERE
SqlDeleteWhere ==
    <<"D", "E", "L", "E", "T", "E", " ", "F", "R", "O", "M", " ", "u", "s",
      "e", "r", "s", " ", "W", "H", "E", "R", "E">>

\* Complete statements with one comparison at most.
PlainSQL ==
    {SqlCreateUsers, SqlInsertOne, SqlInsertTwo, SqlSelect, SqlUpdate,
     SqlUpdateAll, SqlDelete}

\* Statements whose WHERE clause holds two comparisons joined by AND.
CompoundSQL == {SqlSelectAnd, SqlUpdateAnd, SqlDeleteAnd}

\* Inputs that are no sentence of the statement grammar: an unknown data
\* type, PRIMARY without KEY, a value list without a comma and one that ends
\* with a comma, a SET list without =, a token after the last clause, and a
\* WHERE without a comparison.
MalformedSQL ==
    {SqlCreateBlob, SqlCreatePrimary, SqlInsertNoComma, SqlInsertComma,
     SqlUpdateNoEquals, SqlSelectExtra, SqlDeleteWhere}

ReplInputs == PlainSQL \cup CompoundSQL \cup MalformedSQL

\* One pass of the loop of Repl.executeSQL (part_000 80-122) on the
\* statement stmtSQL: the database and the directory after it, the error
\* returned, the result set printed and what ParseStatement returned.
executeStatement(db, dir, stmtSQL) ==
    With(ParseSQL(stmtSQL), LAMBDA p :
        LET Refused(err) == [db |-> db, dir |-> dir, err |-> err,
                             result |-> Null, parsed |-> p]
            Done(r) == [db |-> r.db,
                        dir |-> SaveAfter(dir, r, p.stmt.TableName),
                        err |-> r.err, result |-> Null, parsed |-> p]
        IN  IF p.err # Ok THEN Refused("parse error")
            ELSE IF p.errors > 0 THEN Refused("parse errors")
            ELSE CASE p.kind = "CreateTableStatement" ->
                        With(ExecuteCreateTable(db, p.stmt), Done)
                   [] p.kind = "InsertStatement" ->
                        With(ExecuteInsert(db, p.stmt), Done)
                   [] p.kind = "UpdateStatement" ->
                        With(ExecuteUpdate(
                                db, p.stmt,
                                CHOOSE o \in Orders(DOMAIN p.stmt.Set) : TRUE),
                             Done)
                   [] p.kind = "DeleteStatement" ->
                        With(ExecuteDelete(db, p.stmt), Done)
                   [] OTHER ->
                        With(ExecuteSelect(db, p.stmt), LAMBDA r :
                            [db |-> db, dir |-> dir, err |-> r.err,
                             result |-> r.result, parsed |-> p]))

\* The loop of Repl.executeSQL from the i-th statement on; before holds what
\* the statements so far left.
RECURSIVE executeSQLFrom(_, _, _)
executeSQLFrom(before, statements, i) ==
    IF i > Len(statements) THEN before
    ELSE IF TrimSpace(statements[i]) = <<>>
    THEN executeSQLFrom(before, statements, i + 1)
    ELSE With(executeStatement(before.db, before.dir,
                               TrimSpace(statements[i])),
              LAMBDA r : IF r.err # Ok THEN r
                         ELSE executeSQLFrom(r, statements, i + 1))

\* Repl.executeSQL; args holds the input and what ParseStatement returned
\* for the last statement parsed.
executeSQL(sql) ==
    \E r \in {executeSQLFrom([db |-> tables, dir |-> files, err |-> Ok,
                              result |-> Null, parsed |-> ParseError(Ok, 0)],
                             Split(sql, ";"), 1)} :
        /\ tables' = r.db
        /\ files' = r.dir
        /\ result' = r.result
        /\ last' = [NoCall EXCEPT !.op = "executeSQL", !.err = r.err,
                                  !.args = [sql |-> sql, parsed |-> r.parsed]]
        /\ UNCHANGED <<loaded, requests, lexer>>

NextRepl == \E sql \in ReplInputs : executeSQL(sql)

SpecRepl == Init /\ [][NextRepl]_vars

\* C23: for every input that is no sentence of the statement grammar,
\* ParseStatement returns an error and no statement.
C23_MalformedRejected ==
    (last.op = "executeSQL" /\ last.args.sql \in MalformedSQL) =>
        last.args.parsed.err # Ok /\ last.args.parsed.kind = "nil"

\* C24: a SELECT, UPDATE or DELETE whose WHERE clause holds two comparisons
\* joined by AND is rejected with an error by the parser or the executor.
C24_CompoundWhereRejected ==
    (last.op = "executeSQL" /\ last.args.sql \in CompoundSQL) =>
        last.err # Ok

(***************************************************************************)
(* The String methods of the statements (parser/ast.go) and the round trip *)
(* String, ParseStatement, String.                                         *)
(***************************************************************************)
Str_users == <<"u", "s", "e", "r", "s">>

Str_posts == <<"p", "o", "s", "t", "s">>

\* DataType.String of the parser's DataType.
ParserDataTypeString(d) ==
    CASE d = DATATYPE_INTEGER -> Str_INTEGER
      [] d = DATATYPE_TEXT -> Str_TEXT
      [] d = DATATYPE_BOOLEAN -> Str_BOOLEAN
      [] OTHER -> <<"U", "N", "K", "N", "O", "W", "N">>

\* ColumnDefinition.String
ColumnDefinitionString(c) ==
    c.Name \o <<" ">> \o ParserDataTypeString(c.DataType)
        \o (IF c.PrimaryKey THEN <<" ", "P", "R", "I", "M", "A", "R", "Y", " ", "K", "E", "Y">> ELSE <<>>)
        \o (IF c.Unique THEN <<" ", "U", "N", "I", "Q", "U", "E">> ELSE <<>>)

\* The characters of an operator.
OperatorString(o) ==
    CASE o = "=" -> <<"=">>
      [] o = "!=" -> <<"!", "=">>
      [] o = ">" -> <<">">>
      [] o = "<" -> <<"<">>
      [] o = ">=" -> <<">", "=">>
      [] OTHER -> <<"<", "=">>

\* Identifier.String, QualifiedIdentifier.String, Literal.String and
\* StarExpression.String.
PrimaryString(e) ==
    CASE e.node = "Identifier" -> e.Value
      [] e.node = "QualifiedIdentifier" -> e.Table \o <<".">> \o e.Column
      [] e.node = "StarExpression" -> <<"*">>
      [] OTHER ->
            IF e.Value.kind = "text" THEN <<"'">> \o e.Value.val \o <<"'">>
            ELSE IF e.Value.kind = "bool"
            THEN (IF e.Value.val THEN <<"T", "R", "U", "E">> ELSE <<"F", "A", "L", "S", "E">>)
            ELSE FormatInt(e.Value.val)

\* Expression.String; the sides of a BinaryExpression of the model are
\* identifiers and literals.
ExpressionString(e) ==
    IF e.node = "BinaryExpression"
    THEN PrimaryString(e.Left) \o <<" ">> \o OperatorString(e.Operator)
            \o <<" ">> \o PrimaryString(e.Right)
    ELSE PrimaryString(e)

\* " WHERE " and the expression, nothing for a nil Where.
WhereString(where) ==
    IF where = NilExpr THEN <<>>
    ELSE <<" ", "W", "H", "E", "R", "E", " ">> \o ExpressionString(where)

\* CreateTableStatement.String
CreateTableString(c) ==
    <<"C", "R", "E", "A", "T", "E", " ", "T", "A", "B", "L", "E", " ">> \o c.TableName \o <<" ", "(">>
        \o Join([i \in 1..Len(c.Columns) |->
                    ColumnDefinitionString(c.Columns[i])], <<",", " ">>)
        \o <<")">>

\* InsertStatement.String
InsertString(s) ==
    <<"I", "N", "S", "E", "R", "T", " ", "I", "N", "T", "O", " ">> \o s.TableName \o <<" ", "V", "A", "L", "U", "E", "S", " ", "(">>
        \o Join([i \in 1..Len(s.Values) |-> ExpressionString(s.Values[i])],
                <<",", " ">>)
        \o <<")">>

\* JoinClause.String
JoinString(j) ==
    <<"J", "O", "I", "N", " ">> \o j.TableName \o <<" ", "O", "N", " ">> \o ExpressionString(j.On)

\* SelectStatement.String
SelectString(s) ==
    <<"S", "E", "L", "E", "C", "T", " ">>
        \o Join([i \in 1..Len(s.Columns) |-> ExpressionString(s.Columns[i])],
                <<",", " ">>)
        \o <<" ", "F", "R", "O", "M", " ">> \o s.TableName
        \o (IF s.Join # NilJoin THEN <<" ">> \o JoinString(s.Join) ELSE <<>>)
        \o WhereString(s.Where)

\* UpdateStatement.String; order is the order in which the range over the
\* Set map visits its columns.
UpdateString(u, order) ==
    <<"U", "P", "D", "A", "T", "E", " ">> \o u.TableName \o <<" ", "S", "E", "T", " ">>
        \o Join([i \in 1..Len(order) |->
                    order[i] \o <<" ", "=", " ">> \o ExpressionString(u.Set[order[i]])],
                <<",", " ">>)
        \o WhereString(u.Where)

\* DeleteStatement.String
DeleteString(d) == <<"D", "E", "L", "E", "T", "E", " ", "F", "R", "O", "M", " ">> \o d.TableName \o WhereString(d.Where)

\* Statement.String of a statement of the given kind.
StatementString(kind, stmt, order) ==
    CASE kind = "CreateTableStatement" -> CreateTableString(stmt)
      [] kind = "InsertStatement" -> InsertString(stmt)
      [] kind = "SelectStatement" -> SelectString(stmt)
      [] kind = "UpdateStatement" -> UpdateString(stmt, order)
      [] OTHER -> DeleteString(stmt)

\* The columns of the CREATE TABLE statements: id INTEGER and nm TEXT with
\* none, either or both of the constraint flags.
FlaggedColumns(name, dataType) ==
    {Column(name, dataType, p, u) : p \in BOOLEAN, u \in BOOLEAN}

\* WHERE clauses: none, or id compared with 1 by each operator.
RoundTripWheres ==
    {NilExpr}
        \cup {BinaryExpression(Identifier(id), o, Literal(IntVal(1))) :
                o \in {"=", "!=", ">", "<", ">=", "<="}}

\* The statement ASTs of the round trip, each with its kind.
RoundTripASTs ==
    {[kind |-> "CreateTableStatement",
      stmt |-> [TableName |-> Str_users, Columns |-> c]] :
        c \in {<<a>> : a \in FlaggedColumns(id, DATATYPE_INTEGER)}
            \cup {<<a, b>> : a \in FlaggedColumns(id, DATATYPE_INTEGER),
                             b \in FlaggedColumns(nm, DATATYPE_TEXT)}}
    \cup
    {[kind |-> "InsertStatement",
      stmt |-> [TableName |-> Str_users, Values |-> v]] :
        v \in UNION {[1..k -> {Literal(IntVal(1)), Literal(TextVal(<<"a">>)),
                              Literal(BoolVal(TRUE))}] : k \in 1..2}}
    \cup
    {[kind |-> "SelectStatement",
      stmt |-> [TableName |-> Str_users, Columns |-> c, Where |-> w,
                Join |-> j]] :
        c \in {<<StarExpression>>, <<Identifier(id)>>,
               <<QualifiedIdentifier(Str_users, id), Identifier(nm)>>},
        w \in RoundTripWheres,
        j \in {NilJoin,
               JoinClause(Str_posts,
                          BinaryExpression(QualifiedIdentifier(Str_users, id),
                                           "=",
                                           QualifiedIdentifier(Str_posts, id)))}}
    \cup
    {[kind |-> "UpdateStatement",
      stmt |-> [TableName |-> Str_users, Set |-> s, Where |-> w]] :
        s \in {[c \in {nm} |-> Literal(TextVal(<<"b">>))],
               [c \in {id, nm} |-> IF c = id THEN Literal(IntVal(2))
                                   ELSE Literal(TextVal(<<"b">>))]},
        w \in RoundTripWheres}
    \cup
    {[kind |-> "DeleteStatement",
      stmt |-> [TableName |-> Str_users, Where |-> w]] :
        w \in RoundTripWheres}

\* The orders of the Set map of a statement, one empty order for the
\* statements without one.
SetOrders(ast) ==
    IF ast.kind = "UpdateStatement" THEN Orders(DOMAIN ast.stmt.Set)
    ELSE {<<>>}

\* A statement AST is given: args holds it.
InitRoundTrip ==
    /\ tables = EmptyMap
    /\ files = EmptyMap
    /\ loaded = NotLoaded
    /\ \E ast \in RoundTripASTs : last = [NoCall EXCEPT !.op = "Statement",
                                                       !.args = ast]
    /\ result = Null
    /\ requests = NoRequests
    /\ lexer = NoLexer

\* String() of the statement, ParseStatement on that text and String() of
\* the parsed statement (rdbms_test.go 94-115); result holds the text, what
\* ParseStatement returned and the second text.
StringParseString(first, second) ==
    \E text \in {StatementString(last.args.kind, last.args.stmt, first)} :
        \E parsed \in {ParseSQL(text)} :
            /\ last.op = "Statement"
            /\ last' = [last EXCEPT !.op = "String"]
            /\ result' = [text |-> text, parsed |-> parsed,
                          again |-> IF parsed.err # Ok THEN <<>>
                                    ELSE StatementString(parsed.kind,
                                                         parsed.stmt, second)]
            /\ UNCHANGED <<tables, files, loaded, requests, lexer>>

NextRoundTrip ==
    \E first, second \in SetOrders(last.args) : StringParseString(first, second)

SpecRoundTrip == InitRoundTrip /\ [][NextRoundTrip]_vars

\* C25: for every statement AST, parsing the text given by String()
\* succeeds and the String() of the parsed statement is that text.
C25_ParserRoundTrip ==
    last.op = "String" =>
        /\ result.parsed.err = Ok
        /\ result.again = result.text

(***************************************************************************)
(* Database.ExecuteUpdate and Database.ExecuteDelete on a table with a     *)
(* primary key.                                                            *)
(***************************************************************************)
ModifyCreates == {stmt \in CreateStmts : stmt.TableName = "users"}

ModifyInserts ==
    {[TableName |-> "users", Values |-> <<Literal(k), Literal(n)>>] :
        k \in Keys, n \in Names}

\* SET clauses: a key, a name, or a name of the wrong type.
ModifySets ==
    {[c \in {id} |-> Literal(k)] : k \in Keys}
        \cup {[c \in {nm} |-> Literal(v)] : v \in {TextVal(<<"a">>), IntVal(1)}}

ModifyUpdates ==
    {[TableName |-> "users", Set |-> s, Where |-> w] :
        s \in ModifySets, w \in Wheres}

ModifyDeletes == {[TableName |-> "users", Where |-> w] : w \in Wheres}

\* Database.ExecuteUpdate; args is the statement.
DbExecuteUpdate(stmt, order) ==
    LET r == ExecuteUpdate(tables, stmt, order)
    IN  /\ tables' = r.db
        /\ last' = [NoCall EXCEPT !.op = "ExecuteUpdate",
                                  !.name = stmt.TableName, !.err = r.err,
                                  !.args = stmt]
        /\ result' = Null
        /\ UNCHANGED <<files, loaded, requests, lexer>>

\* Database.ExecuteDelete; args is the statement.
DbExecuteDelete(stmt) ==
    LET r == ExecuteDelete(tables, stmt)
    IN  /\ tables' = r.db
        /\ last' = [NoCall EXCEPT !.op = "ExecuteDelete",
                                  !.name = stmt.TableName, !.err = r.err,
                                  !.args = stmt]
        /\ result' = Null
        /\ UNCHANGED <<files, loaded, requests, lexer>>

NextModify ==
    \/ \E stmt \in ModifyCreates : DbExecuteCreateTable(stmt)
    \/ \E stmt \in ModifyInserts :
            TotalRows(tables) < MaxRows /\ DbExecuteInsert(stmt)
    \/ \E stmt \in ModifyUpdates : \E order \in Orders(DOMAIN stmt.Set) :
            DbExecuteUpdate(stmt, order)
    \/ \E stmt \in ModifyDeletes : DbExecuteDelete(stmt)

SpecModify == Init /\ [][NextModify]_vars

\* The step is a successful statement of the given kind on an existing table
\* with a primary key.
SucceededOnKeyed(op) ==
    /\ last'.op = op
    /\ last'.err = Ok
    /\ last'.name \in DOMAIN tables
    /\ tables[last'.name].PrimaryKey # <<>>

\* C27: after a successful ExecuteUpdate on a table with a primary key, every
\* row that satisfied the WHERE condition before the statement holds the
\* values of the SET clause in the assigned columns, and every row that did
\* not satisfy it is unchanged.
C27_UpdateMatchingRowsOnly ==
    [][SucceededOnKeyed("ExecuteUpdate") =>
        LET t == tables[last'.name]
            stmt == last'.args
        IN  \A i \in 1..Len(t.Rows) :
                LET rid == t.Rows[i]
                    after == tables'[last'.name].heap[rid]
                IN  IF whereCondition(stmt.Where, t.heap[rid])
                    THEN \A c \in DOMAIN stmt.Set :
                            GetValue(after, c)
                                = evaluateExpression(stmt.Set[c]).value
                    ELSE after = t.heap[rid]]_vars

\* C28: after a successful ExecuteDelete on a table with a primary key, the
\* row sequence is the rows that did not satisfy the WHERE condition before
\* the statement, in their previous order and with unchanged values.
C28_DeleteMatchingRowsOnly ==
    [][SucceededOnKeyed("ExecuteDelete") =>
        LET t == tables[last'.name]
            t2 == tables'[last'.name]
            stmt == last'.args
        IN  /\ t2.Rows =
                SelectSeq(t.Rows,
                          LAMBDA r : ~whereCondition(stmt.Where, t.heap[r]))
            /\ \A i \in 1..Len(t2.Rows) :
                    t2.heap[t2.Rows[i]] = t.heap[t2.Rows[i]]]_vars

\* C30: after every statement executed through PersistedDatabase, each
\* table's file is the ToCSV serialization of the table in memory, and a
\* statement that returns an error changes neither the tables nor the files.
C30_FilesMatchMemory ==
    [][/\ \A n \in DOMAIN tables' :
            /\ n \in DOMAIN files'
            /\ files'[n] = ToCSV(tables'[n])
       /\ last'.err # Ok => (tables' = tables /\ files' = files)]_vars

(***************************************************************************)
(* A second PersistedDatabase opened on the data directory.                *)
(***************************************************************************)
\* Storage.LoadDatabase into a new Database: every file of the directory is
\* read with TableFromCSV and the first one that fails ends the loading.
LoadDatabase(dir) ==
    LET tbls == [n \in DOMAIN dir |-> TableFromCSV(n, dir[n])]
    IN  IF \E n \in DOMAIN dir : tbls[n].err # Ok
        THEN [db |-> Null, err |-> "error loading table"]
        ELSE [db |-> [n \in DOMAIN dir |-> tbls[n].table], err |-> Ok]

\* NewPersistedDatabase on the directory the statements wrote: result holds
\* the tables of the new database, Null when it returns an error.
NewPersistedDatabase ==
    LET r == LoadDatabase(files)
    IN  /\ result' = r.db
        /\ last' = [NoCall EXCEPT !.op = "NewPersistedDatabase",
                                  !.err = r.err]
        /\ UNCHANGED <<tables, files, loaded, requests, lexer>>

\* The statements run on the first database until the second one is opened;
\* the behaviour ends there.
NextRestart ==
    \/ last.op # "NewPersistedDatabase" /\ Next
    \/ last.op # "NewPersistedDatabase" /\ NewPersistedDatabase

SpecRestart == Init /\ [][NextRestart]_vars

\* C29: opening a new PersistedDatabase on the directory succeeds after any
\* sequence of statements, and it holds one table for every file, with the
\* columns and the rows, in their order, that the file holds: its ToCSV is
\* the file.
C29_RestartLoadsFiles ==
    last.op = "NewPersistedDatabase" =>
        /\ last.err = Ok
        /\ DOMAIN result = DOMAIN files
        /\ \A n \in DOMAIN files : ToCSV(result[n]) = files[n]

\* C31: in every state of a table with a primary key, the index is a
\* one-to-one map onto the row sequence: every indexed row is in the row
\* sequence, no row is indexed under two keys, and there are as many index
\* entries as rows.
C31_IndexOneToOne ==
    \A n \in DOMAIN tables :
        LET t == tables[n]
        IN  t.PrimaryKey # <<>> =>
                /\ \A k \in DOMAIN t.index : t.index[k] \in Range(t.Rows)
                /\ \A k1, k2 \in DOMAIN t.index :
                        t.index[k1] = t.index[k2] => k1 = k2
                /\ Cardinality(DOMAIN t.index) = Len(t.Rows)

\* C31 witness: a row was deleted from a table of two rows after an update
\* had changed the key of the row that stays.
C31_Witness ==
    /\ last.op = "DeleteRow"
    /\ last.err = Ok
    /\ LET t == tables[last.name]
       IN  /\ Len(t.Rows) = 1
           /\ \E k \in DOMAIN t.index : KeyOf(t, t.index[k]) # k

\* C32: when UpdateRow returns an error because an entry of the update map
\* names a column the table does not declare or carries a value of the wrong
\* type, no column of the target row has changed, in whatever order the
\* entries of the map are visited.
C32_SchemaErrorChangesNothing ==
    [][\A n \in DOMAIN tables :
        LET t == tables[n]
            rid == FindRowByPrimaryKey(t, last'.key)
        IN  (/\ last'.op = "UpdateRow"
             /\ last'.name = n
             /\ rid # 0
             /\ ~AllApplied(t, last'.args))
                => (/\ last'.err \in {"no column", "type"}
                    /\ tables'[n].heap[rid] = t.heap[rid])]_vars

(***************************************************************************)
(* The WHERE comparison applied to every pair of a row value and a literal.*)
(***************************************************************************)
\* Integers, texts, Booleans and nil.
CompareValues ==
    {IntVal(1), IntVal(2), TextVal(<<"a">>), TextVal(<<"b">>),
     TextVal(<<"a", "b">>), BoolVal(TRUE), BoolVal(FALSE), Null}

CompareOperators == {"=", "!=", ">", "<", ">=", "<="}

\* A row value and a literal are given: args holds them.
InitCompare ==
    /\ tables = EmptyMap
    /\ files = EmptyMap
    /\ loaded = NotLoaded
    /\ \E l, r \in CompareValues :
            last = [NoCall EXCEPT !.op = "Row",
                                  !.args = [left |-> l, right |-> r]]
    /\ result = Null
    /\ requests = NoRequests
    /\ lexer = NoLexer

\* The closure of buildBinaryCondition for WHERE id <operator> literal,
\* applied to a row that holds the value in id, for each operator; result
\* maps the operator to what the closure returns.
WhereOnRow ==
    /\ last.op = "Row"
    /\ last' = [last EXCEPT !.op = "whereCondition"]
    /\ result' =
        [o \in CompareOperators |->
            whereCondition(
                BinaryExpression(Identifier(id), o, Literal(last.args.right)),
                [c \in {id} |-> last.args.left])]
    /\ UNCHANGED <<tables, files, loaded, requests, lexer>>

NextCompare == WhereOnRow

SpecCompare == InitCompare /\ [][NextCompare]_vars

\* C33: for every pair of a row value and a literal, WHERE col >= literal is
\* true exactly when col > literal or col = literal is, and WHERE col <=
\* literal exactly when col < literal or col = literal is.
C33_OrEqualOperators ==
    last.op = "whereCondition" =>
        /\ result[">="] <=> (result[">"] \/ result["="])
        /\ result["<="] <=> (result["<"] \/ result["="])

(***************************************************************************)
(* SELECT with JOIN over two tables that share an integer column type      *)
(* under different names, with and without WHERE.                          *)
(***************************************************************************)
uid == <<"u", "i", "d">>

\* likes (id INTEGER, uid INTEGER): no constraint.
LikesColumns ==
    <<Column(id, DATATYPE_INTEGER, FALSE, FALSE),
      Column(uid, DATATYPE_INTEGER, FALSE, FALSE)>>

JoinCreates ==
    {[TableName |-> "users", Columns |-> UsersColumns],
     [TableName |-> "likes", Columns |-> LikesColumns]}

JoinInserts ==
    {[TableName |-> "users", Values |-> <<Literal(k), Literal(n)>>] :
        k \in Keys, n \in Names}
        \cup {[TableName |-> "likes", Values |-> <<Literal(k), Literal(u)>>] :
                k \in Keys, u \in Keys}

\* SELECT * FROM users JOIN likes ON users.id = likes.uid and ON likes.uid
\* = users.id, without WHERE, with WHERE nm = 'a' and with WHERE uid = 1.
JoinStmts ==
    {[TableName |-> "users", Columns |-> <<StarExpression>>, Where |-> w,
      Join |-> JoinClause("likes", on)] :
        w \in {NilExpr,
               BinaryExpression(Identifier(nm), "=", Literal(TextVal(<<"a">>))),
               BinaryExpression(Identifier(uid), "=", Literal(IntVal(1)))},
        on \in {JoinOn("users", id, "likes", uid),
                JoinOn("likes", uid, "users", id)}}

NextJoin ==
    \/ \E stmt \in JoinCreates : DbExecuteCreateTable(stmt)
    \/ \E stmt \in JoinInserts :
            /\ stmt.TableName \in DOMAIN tables
            /\ Len(tables[stmt.TableName].Rows) < MaxRows
            /\ DbExecuteInsert(stmt)
    \/ \E stmt \in JoinStmts : DbExecuteSelect(stmt)

SpecJoin == Init /\ [][NextJoin]_vars

\* The values of the left table's columns in a joined row, as a row of the
\* left table.
LeftData(t, values) ==
    [c \in Range(DeclaredNames(t)) |->
        values[CHOOSE i \in 1..Len(t.Columns) : t.Columns[i].Name = c]]

\* C34: a SELECT with a JOIN and a WHERE clause returns only joined rows
\* whose left-table row satisfies the WHERE comparison.
C34_JoinWhereFilters ==
    (/\ last.op = "ExecuteSelect"
     /\ last.err = Ok
     /\ last.args.Join # NilJoin
     /\ last.args.Where # NilExpr)
        => \A k \in 1..Len(result.Rows) :
                whereCondition(last.args.Where,
                               LeftData(tables[last.name], result.Rows[k]))

\* C35: SELECT * FROM A JOIN B ON A.x = B.y and SELECT * FROM A JOIN B ON
\* B.y = A.x return the same result rows.
C35_JoinConditionSymmetric ==
    (/\ last.op = "ExecuteSelect"
     /\ last.err = Ok
     /\ last.args.Join # NilJoin
     /\ last.args.Columns = <<StarExpression>>)
        => LET exchanged ==
                   [last.args EXCEPT !.Join.On.Left = last.args.Join.On.Right,
                                     !.Join.On.Right = last.args.Join.On.Left]
               other == ExecuteSelect(tables, exchanged)
           IN  /\ other.err = Ok
               /\ other.result.Rows = result.Rows

(***************************************************************************)
(* Statements that name a column the table does not declare.               *)
(***************************************************************************)
\* WHERE clauses on the undeclared column zz and on the declared key.
UndeclaredWheres ==
    {BinaryExpression(Identifier(c), op, Literal(IntVal(1))) :
        c \in {zz, id}, op \in {"=", "!="}}

UndeclaredSelects ==
    {[TableName |-> "users", Columns |-> cols, Where |-> w,
      Join |-> NilJoin] :
        cols \in {<<StarExpression>>, <<Identifier(zz)>>,
                  <<Identifier(id), Identifier(zz)>>},
        w \in UndeclaredWheres \cup {NilExpr}}

UndeclaredUpdates ==
    {[TableName |-> "users",
      Set |-> [c \in {nm} |-> Literal(TextVal(<<"a">>))],
      Where |-> w] : w \in UndeclaredWheres}

UndeclaredDeletes ==
    {[TableName |-> "users", Where |-> w] : w \in UndeclaredWheres}

NextUndeclared ==
    \/ \E stmt \in ModifyCreates : DbExecuteCreateTable(stmt)
    \/ \E stmt \in ModifyInserts :
            TotalRows(tables) < MaxRows /\ DbExecuteInsert(stmt)
    \/ \E stmt \in UndeclaredSelects : DbExecuteSelect(stmt)
    \/ \E stmt \in UndeclaredUpdates : \E order \in Orders(DOMAIN stmt.Set) :
            DbExecuteUpdate(stmt, order)
    \/ \E stmt \in UndeclaredDeletes : DbExecuteDelete(stmt)

SpecUndeclared == Init /\ [][NextUndeclared]_vars

\* The column names a statement reads: those of its projection list (SELECT
\* only) and the one on the left of its WHERE comparison.
NamedColumns(op, stmt) ==
    (IF op = "ExecuteSelect"
     THEN {stmt.Columns[i].Value :
              i \in {j \in 1..Len(stmt.Columns) :
                        stmt.Columns[j].node = "Identifier"}}
     ELSE {})
        \cup (IF stmt.Where # NilExpr /\ stmt.Where.Left.node = "Identifier"
              THEN {stmt.Where.Left.Value}
              ELSE {})

\* C36: a SELECT, UPDATE or DELETE that names, in its projection list or on
\* the left of its WHERE comparison, a column the source table does not
\* declare returns an error; it returns no rows and leaves the tables as they
\* were.
C36_UndeclaredColumnIsError ==
    [][(/\ last'.op \in {"ExecuteSelect", "ExecuteUpdate", "ExecuteDelete"}
        /\ last'.name \in DOMAIN tables
        /\ \E c \in NamedColumns(last'.op, last'.args) :
                c \notin Range(DeclaredNames(tables[last'.name])))
            => /\ last'.err # Ok
               /\ result' = Null
               /\ tables' = tables]_vars

(***************************************************************************)
(* The journal database called one call at a time.                         *)
(***************************************************************************)
\* The DELETE statement of JournalDB.DeleteEntry.
EntryDelete(entryID) ==
    [TableName |-> "entries",
     Where |-> BinaryExpression(Identifier(id), "=",
                                Literal(IntVal(entryID)))]

\* JournalDB.CreateEntry as one call, the r-th of the sequence: getNextID,
\* then the INSERT through the persisted database. The request records the
\* id it was given and 201 for a nil error, 500 for an error.
JournalCreateEntry(r, req) ==
    LET nextID == getNextID(tables)
        stmt == EntryInsert(nextID, req)
        x == ExecuteInsert(tables, stmt)
    IN  /\ requests[r].pc = "idle"
        /\ \A q \in 1..(r - 1) : requests[q].pc = "done"
        /\ tables' = x.db
        /\ files' = SaveAfter(files, x, stmt.TableName)
        /\ result' = ExecuteSelect(tables, NextIDSelect).result
        /\ last' = [NoCall EXCEPT !.op = "CreateEntry",
                                  !.name = stmt.TableName, !.err = x.err,
                                  !.key = nextID]
        /\ requests' = [requests EXCEPT ![r] =
                [Idle EXCEPT !.pc = "done", !.req = req, !.nextID = nextID,
                             !.status = IF x.err = Ok THEN 201 ELSE 500]]
        /\ UNCHANGED <<loaded, lexer>>

\* JournalDB.DeleteEntry as one call.
JournalDeleteEntry(entryID) ==
    LET stmt == EntryDelete(entryID)
        x == ExecuteDelete(tables, stmt)
    IN  /\ tables' = x.db
        /\ files' = SaveAfter(files, x, stmt.TableName)
        /\ result' = Null
        /\ last' = [NoCall EXCEPT !.op = "DeleteEntry",
                                  !.name = stmt.TableName, !.err = x.err,
                                  !.key = entryID]
        /\ UNCHANGED <<loaded, requests, lexer>>

NextJournalCalls ==
    \/ \E r \in 1..MaxRequests : \E req \in CreateEntryRequests :
            JournalCreateEntry(r, req)
    \/ \E entryID \in 1..MaxRequests : JournalDeleteEntry(entryID)

SpecJournalCalls == InitJournal /\ [][NextJournalCalls]_vars

\* C37: over any sequence of CreateEntry and DeleteEntry calls handled one
\* at a time, every CreateEntry succeeds and the id it assigns was not
\* assigned to an earlier entry, deleted entries included.
C37_SequentialIdsNeverReused ==
    /\ \A r \in 1..MaxRequests :
            requests[r].pc = "done" => requests[r].status = 201
    /\ \A r1, r2 \in 1..MaxRequests :
            (r1 < r2 /\ requests[r2].pc = "done")
                => requests[r1].nextID # requests[r2].nextID

====
